---- MODULE Spec2Model ----
(***************************************************************************)
(* Weather agent: the A2A bridge (WeatherAgentExecutor), the worker it     *)
(* drives (WeatherAgent.stream) and the task lifecycle engine it reports   *)
(* to (TaskUpdater / EventQueue of the a2a SDK, which the repository only  *)
(* calls).                                                                 *)
(***************************************************************************)
EXTENDS Integers, Sequences, FiniteSets, TLC

\* ------------------------------------------------------------------ bounds
MaxTasks == 2
MaxInv == 2
MaxProgress == 1
\* events one stream delivers to the chat tab
MaxItems == 2
\* prompts entered in the chat tab
MaxTurns == 2

TaskIds == 1..MaxTasks
InvIds == 1..MaxInv
Contexts == 1..MaxTasks
\* context.current_task is None
NoTask == 0

\* ------------------------------------------------------------- data model
TaskStates == {"submitted", "working", "input-required",
               "completed", "failed", "canceled"}
Terminal == {"completed", "failed", "canceled"}
\* states a status update with final=true may carry
FinalEligible == Terminal \cup {"input-required"}
ProtocolErrors == {"InvalidParams", "NotFound", "UnsupportedOperation",
                   "InvalidTransition"}

VARIABLES
    tasks,    \* Task Store: task id -> Task record
    events,   \* per task id: the ProtocolEvents emitted, in emission order
    calls,    \* per task id: the accepted lifecycle calls, in issue order
    inv,      \* per invocation of execute: its position and its event queue
    ninv,     \* number of invocations of execute started so far
    signal,   \* the error the call of the last step signalled, if it failed
    push_config, \* Push-Notification Config Store: task id -> webhook url
    deliveries,  \* the webhook deliveries the Push Notification Sender made
    replies,  \* per invocation: what a blocking message/send call returned
    chat,     \* the frontend's chat tab: session state and the turn in hand
    extraction, \* text extraction: the payload given and what was returned
    db,       \* the weather database: its tables, its clock, the last result
    forecast, \* get_weather_forecast: the response and the entries built
    worker,   \* the final graph state of the worker's run, where it is given
    transport \* send_message_stream: the response lines and the items yielded

\* The state of the frontend's helpers and of the worker's tools.
toolVars == <<extraction, db, forecast, worker, transport>>

vars == <<tasks, events, calls, inv, ninv, signal,
          push_config, deliveries, replies, chat, toolVars>>

NoTaskRecord ==
    [exists |-> FALSE, context |-> 0, state |-> "none",
     artifacts |-> <<>>, history |-> <<>>]

IdleInv ==
    [pc |-> "idle", req |-> NoTask, task |-> NoTask, progress |-> 0,
     emitted |-> <<>>, received |-> <<>>, ended |-> 0, closedBy |-> "none",
     err |-> "none", fault |-> FALSE]

NoSignal == [call |-> "none", task |-> NoTask, arg |-> "none", err |-> "none"]

\* The error a failing call signals to its caller.
Signal(call, t, arg, err) == [call |-> call, task |-> t, arg |-> arg, err |-> err]

Last(s) == s[Len(s)]

\* --------------------------------------------------------------- the worker
\* WeatherResponseFormat.status
ResponseStatuses == {"input_required", "completed", "error"}

FormatResponseErrorAsProgress(status) ==
    IF status = "input_required"
    THEN [is_task_complete |-> FALSE, require_user_input |-> TRUE]
    ELSE IF status = "error"
    THEN [is_task_complete |-> FALSE, require_user_input |-> FALSE]
    ELSE [is_task_complete |-> TRUE, require_user_input |-> FALSE]

\* WeatherAgent._format_response
FormatResponse(status) ==
    IF status = "input_required"
    THEN [is_task_complete |-> FALSE, require_user_input |-> TRUE]
    ELSE IF status = "error"
    THEN [is_task_complete |-> FALSE, require_user_input |-> TRUE]
    ELSE [is_task_complete |-> TRUE, require_user_input |-> FALSE]

\* The final graph state _get_agent_response reads: the structured response,
\* the WeatherResponseFormat tool call of the last AI message, the JSON text
\* of the last AI message; "none" where absent, "default" for a tool call
\* whose args carry no status.
GraphStates ==
    [structured : ResponseStatuses \cup {"none"},
     toolcall : ResponseStatuses \cup {"none", "default"},
     json : ResponseStatuses \cup {"none"}]

GetAgentResponseFallbackCompletes(g) ==
    IF g.structured # "none" THEN FormatResponse(g.structured)
    ELSE IF g.toolcall = "default" THEN FormatResponse("input_required")
    ELSE IF g.toolcall # "none" THEN FormatResponse(g.toolcall)
    ELSE IF g.json # "none" THEN FormatResponse(g.json)
    ELSE [is_task_complete |-> TRUE, require_user_input |-> FALSE]

\* WeatherAgent._get_agent_response
GetAgentResponse(g) ==
    IF g.structured # "none" THEN FormatResponse(g.structured)
    ELSE IF g.toolcall = "default" THEN FormatResponse("input_required")
    ELSE IF g.toolcall # "none" THEN FormatResponse(g.toolcall)
    ELSE IF g.json # "none" THEN FormatResponse(g.json)
    ELSE [is_task_complete |-> FALSE, require_user_input |-> TRUE]

\* A run whose final graph state is not given: it may be any.
AnyWorker ==
    [fixed |-> FALSE,
     g |-> [structured |-> "none", toolcall |-> "none", json |-> "none"]]

\* The final graph states the run in hand may end in.
FinalGraphStates == IF worker.fixed THEN {worker.g} ELSE GraphStates

\* The items WeatherAgent.stream may yield next: a progress notice while the
\* graph still streams (tool call or tool message), or the final outcome.
\* last marks the item after which the generator is exhausted.
StreamItems(progress) ==
    (IF progress < MaxProgress
     THEN {[is_task_complete |-> FALSE, require_user_input |-> FALSE,
            last |-> FALSE]}
     ELSE {})
    \cup
    {[is_task_complete |-> GetAgentResponse(g).is_task_complete,
      require_user_input |-> GetAgentResponse(g).require_user_input,
      last |-> TRUE] : g \in FinalGraphStates}

\* ------------------------------------------------------ lifecycle engine
Event(kind, t, ctx, state, final) ==
    [kind |-> kind, task |-> t, context |-> ctx, state |-> state,
     final |-> final]

EnqueueFront(q, out) == out \o q

\* EventQueue.enqueue_event: events leave the queue in the order they entered
Enqueue(q, out) == q \o out

IsTerminalNever(t) == FALSE

IsTerminalButCanceled(t) == tasks[t].state \in Terminal \ {"canceled"}

\* The engine's validation: the task is in a permanently terminal state.
IsTerminal(t) == tasks[t].state \in Terminal

\* TaskUpdater.update_status(state, message, final); msg: a message is given
UpdateStatus(t, state, msg, final) ==
    IF IsTerminal(t)
    THEN [err |-> "InvalidTransition", task |-> tasks[t], out |-> <<>>]
    ELSE [err |-> "none",
          task |-> [tasks[t] EXCEPT
                      !.state = state,
                      !.history = IF msg THEN Append(@, "agent") ELSE @],
          out |-> <<Event("status", t, tasks[t].context, state, final)>>]

\* TaskUpdater.complete(): update_status(completed, no message, final=true)
Complete(t) == UpdateStatus(t, "completed", FALSE, TRUE)

\* TaskUpdater.add_artifact(parts, name)
AddArtifact(t) ==
    IF IsTerminal(t)
    THEN [err |-> "InvalidTransition", task |-> tasks[t], out |-> <<>>]
    ELSE [err |-> "none",
          task |-> [tasks[t] EXCEPT !.artifacts = Append(@, "weather_result")],
          out |-> <<Event("artifact", t, tasks[t].context, tasks[t].state,
                          FALSE)>>]

\* new_task(message): a Task in submitted, holding the message
NewTask(ctx) ==
    [exists |-> TRUE, context |-> ctx, state |-> "submitted",
     artifacts |-> <<>>, history |-> <<"user">>]

\* The task id new_task allocates: one no stored task has.
FreshTaskIds == {t \in TaskIds : ~tasks[t].exists /\
                                 \A u \in TaskIds : u < t => tasks[u].exists}

\* The call as the caller issued it.
Call(op, state, final) == [op |-> op, state |-> state, final |-> final]

\* ------------------------------------------------------ push notifications
\* get(task_id) of the config store when no config was set for the task
NoConfig == "none"
WebhookUrls == {"url1", "url2"}
\* How an outbound webhook call ends.
DeliveryOutcomes == {"delivered", "timeout", "non-2xx", "connection-error"}

NotifyTerminalOnly(t, r) ==
    IF r.err = "none" /\ r.out # <<>> /\ r.out[1].kind = "status"
       /\ r.task.state \in Terminal
       /\ push_config[t] # NoConfig
    THEN {Append(deliveries, [task |-> t, url |-> push_config[t],
                              state |-> r.task.state, outcome |-> o]) :
            o \in DeliveryOutcomes}
    ELSE {deliveries}

\* Push Notification Sender, notify(task), as update_status triggers it for
\* the result r of a lifecycle call on task t: the config of the task is
\* looked up and, if there is one, the snapshot is posted to its url; however
\* the post ends, the caller sees nothing of it. The logs it may leave.
Notify(t, r) ==
    IF r.err = "none" /\ r.out # <<>> /\ r.out[1].kind = "status"
       /\ push_config[t] # NoConfig
    THEN {Append(deliveries, [task |-> t, url |-> push_config[t],
                              state |-> r.task.state, outcome |-> o]) :
            o \in DeliveryOutcomes}
    ELSE {deliveries}

\* The context id of a message that opens a task: one already in use, or a
\* new one (context ids are opaque, so the new one is the first unused).
MessageContexts ==
    LET used == {tasks[t].context : t \in {u \in TaskIds : tasks[u].exists}}
        unused == Contexts \ used
    IN used \cup {c \in unused : \A d \in unused : c <= d}

\* ------------------------------------------------------------- the bridge
\* WeatherAgentExecutor._validate_request: True if validation fails
ValidateRequest(cur) == FALSE

NeedsNewTaskAlways(cur) == TRUE

\* execute: "if not task"
NeedsNewTask(cur) == cur = NoTask

ExecuteStartWithoutSnapshot(cur, ctx) ==
    LET i == ninv + 1 IN
    /\ ninv < MaxInv
    /\ IF cur = NoTask THEN TRUE ELSE tasks[cur].exists
    /\ ninv' = i
    /\ UNCHANGED <<push_config, deliveries, replies, chat, toolVars>>
    /\ IF ValidateRequest(cur)
       THEN /\ inv' = [inv EXCEPT ![i] = [IdleInv EXCEPT
                         !.pc = "raised", !.req = cur, !.task = cur,
                         !.err = "InvalidParams"]]
            /\ signal' = Signal("execute", cur, "none", "InvalidParams")
            /\ UNCHANGED <<tasks, events, calls>>
       ELSE IF NeedsNewTask(cur)
       THEN \E t \in FreshTaskIds :
              /\ tasks' = [tasks EXCEPT ![t] = NewTask(ctx)]
              /\ inv' = [inv EXCEPT ![i] = [IdleInv EXCEPT
                           !.pc = "stream", !.req = cur, !.task = t]]
              /\ signal' = NoSignal
              /\ UNCHANGED <<events, calls>>
       ELSE /\ tasks' = [tasks EXCEPT ![cur].history = Append(@, "user")]
            /\ inv' = [inv EXCEPT ![i] = [IdleInv EXCEPT
                         !.pc = "stream", !.req = cur, !.task = cur]]
            /\ signal' = NoSignal
            /\ UNCHANGED <<events, calls>>

\* execute, up to the construction of the TaskUpdater: cur is
\* context.current_task, ctx the context id of the message.
ExecuteStart(cur, ctx) ==
    LET i == ninv + 1 IN
    /\ ninv < MaxInv
    /\ IF cur = NoTask THEN TRUE ELSE tasks[cur].exists
    /\ ninv' = i
    /\ UNCHANGED <<push_config, deliveries, replies, chat, toolVars>>
    /\ IF ValidateRequest(cur)
       THEN /\ inv' = [inv EXCEPT ![i] = [IdleInv EXCEPT
                         !.pc = "raised", !.req = cur, !.task = cur,
                         !.err = "InvalidParams"]]
            /\ signal' = Signal("execute", cur, "none", "InvalidParams")
            /\ UNCHANGED <<tasks, events, calls>>
       ELSE IF NeedsNewTask(cur)
       THEN \E t \in FreshTaskIds :
              LET snap == <<Event("task", t, ctx, "submitted", FALSE)>> IN
              /\ tasks' = [tasks EXCEPT ![t] = NewTask(ctx)]
              /\ events' = [events EXCEPT ![t] = Enqueue(@, snap)]
              /\ inv' = [inv EXCEPT ![i] = [IdleInv EXCEPT
                           !.pc = "stream", !.req = cur, !.task = t,
                           !.emitted = Enqueue(@, snap)]]
              /\ signal' = NoSignal
              /\ UNCHANGED calls
       ELSE /\ tasks' = [tasks EXCEPT ![cur].history = Append(@, "user")]
            /\ inv' = [inv EXCEPT ![i] = [IdleInv EXCEPT
                         !.pc = "stream", !.req = cur, !.task = cur]]
            /\ signal' = NoSignal
            /\ UNCHANGED <<events, calls>>

UpdatedNotAwaited(i, r, call, pcOk, prog) ==
    /\ calls' = [calls EXCEPT ![inv[i].task] = Append(@, call)]
    /\ inv' = [inv EXCEPT ![i].pc = pcOk, ![i].progress = prog]
    /\ signal' = NoSignal
    /\ UNCHANGED <<tasks, events, deliveries>>

UpdatedDeliveryFailureRaises(i, r, call, pcOk, prog) ==
    LET t == inv[i].task IN
    IF r.err # "none"
    THEN /\ inv' = [inv EXCEPT ![i].pc = "raised",
                               ![i].err = "InternalError"]
         /\ signal' = Signal(call.op, t, call.state, r.err)
         /\ UNCHANGED <<tasks, events, calls, deliveries>>
    ELSE /\ tasks' = [tasks EXCEPT ![t] = r.task]
         /\ events' = [events EXCEPT ![t] = Enqueue(@, r.out)]
         /\ calls' = [calls EXCEPT ![t] = Append(@, call)]
         /\ deliveries' \in Notify(t, r)
         /\ IF deliveries' # deliveries /\ Last(deliveries').outcome # "delivered"
            THEN /\ inv' = [inv EXCEPT ![i].pc = "raised",
                                       ![i].err = "InternalError",
                                       ![i].emitted = Enqueue(@, r.out)]
                 /\ signal' = Signal(call.op, t, call.state, "InternalError")
            ELSE /\ inv' = [inv EXCEPT ![i].pc = pcOk,
                                       ![i].progress = prog,
                                       ![i].emitted = Enqueue(@, r.out)]
                 /\ signal' = NoSignal

UpdatedEveryTask(i, r, call, pcOk, prog) ==
    LET t == inv[i].task IN
    IF r.err # "none"
    THEN /\ inv' = [inv EXCEPT ![i].pc = "raised",
                               ![i].err = "InternalError"]
         /\ signal' = Signal(call.op, t, call.state, r.err)
         /\ UNCHANGED <<tasks, events, calls, deliveries>>
    ELSE /\ tasks' = [u \in TaskIds |->
                       IF tasks[u].exists /\ ~IsTerminal(u)
                       THEN [tasks[u] EXCEPT !.state = r.task.state,
                                             !.artifacts = r.task.artifacts]
                       ELSE tasks[u]]
         /\ events' = [events EXCEPT ![t] = Enqueue(@, r.out)]
         /\ calls' = [calls EXCEPT ![t] = Append(@, call)]
         /\ inv' = [inv EXCEPT ![i].pc = pcOk,
                               ![i].progress = prog,
                               ![i].emitted = Enqueue(@, r.out)]
         /\ deliveries' \in Notify(t, r)
         /\ signal' = NoSignal

\* One awaited TaskUpdater call of execute and what follows it: the call's
\* events are enqueued, or its error is caught by "except Exception" and
\* raised as ServerError(InternalError).
Updated(i, r, call, pcOk, prog) ==
    LET t == inv[i].task IN
    IF r.err # "none"
    THEN /\ inv' = [inv EXCEPT ![i].pc = "raised",
                               ![i].err = "InternalError"]
         /\ signal' = Signal(call.op, t, call.state, r.err)
         /\ UNCHANGED <<tasks, events, calls, deliveries>>
    ELSE /\ tasks' = [tasks EXCEPT ![t] = r.task]
         /\ events' = [events EXCEPT ![t] = Enqueue(@, r.out)]
         /\ calls' = [calls EXCEPT ![t] = Append(@, call)]
         /\ inv' = [inv EXCEPT ![i].pc = pcOk,
                               ![i].progress = prog,
                               ![i].emitted = Enqueue(@, r.out)]
         /\ deliveries' \in Notify(t, r)
         /\ signal' = NoSignal

StreamItemNoBreak(i) ==
    /\ inv[i].pc = "stream"
    /\ \E item \in StreamItems(inv[i].progress) :
         LET t == inv[i].task IN
         IF ~item.is_task_complete /\ ~item.require_user_input
         THEN Updated(i, UpdateStatus(t, "working", TRUE, FALSE),
                      Call("update_status", "working", FALSE),
                      IF item.last THEN "returned" ELSE "stream",
                      inv[i].progress + 1)
         ELSE IF item.require_user_input
         THEN Updated(i, UpdateStatus(t, "input-required", TRUE, TRUE),
                      Call("update_status", "input-required", TRUE),
                      "stream", inv[i].progress)
         ELSE Updated(i, AddArtifact(t),
                      Call("add_artifact", "none", FALSE),
                      "complete", inv[i].progress)
    /\ UNCHANGED <<ninv, push_config, replies, chat, toolVars>>

StreamItemWhileConnected(i) ==
    /\ inv[i].pc = "stream"
    /\ inv[i].ended = 0
    /\ \E item \in StreamItems(inv[i].progress) :
         LET t == inv[i].task IN
         IF ~item.is_task_complete /\ ~item.require_user_input
         THEN Updated(i, UpdateStatus(t, "working", TRUE, FALSE),
                      Call("update_status", "working", FALSE),
                      IF item.last THEN "returned" ELSE "stream",
                      inv[i].progress + 1)
         ELSE IF item.require_user_input
         THEN Updated(i, UpdateStatus(t, "input-required", TRUE, TRUE),
                      Call("update_status", "input-required", TRUE),
                      "returned", inv[i].progress)
         ELSE Updated(i, AddArtifact(t),
                      Call("add_artifact", "none", FALSE),
                      "complete", inv[i].progress)
    /\ UNCHANGED <<ninv, push_config, replies, chat, toolVars>>

StreamItemProgressAsSubmitted(i) ==
    /\ inv[i].pc = "stream"
    /\ \E item \in StreamItems(inv[i].progress) :
         LET t == inv[i].task IN
         IF ~item.is_task_complete /\ ~item.require_user_input
         THEN Updated(i, UpdateStatus(t, "submitted", TRUE, FALSE),
                      Call("update_status", "submitted", FALSE),
                      IF item.last THEN "returned" ELSE "stream",
                      inv[i].progress + 1)
         ELSE IF item.require_user_input
         THEN Updated(i, UpdateStatus(t, "input-required", TRUE, TRUE),
                      Call("update_status", "input-required", TRUE),
                      "returned", inv[i].progress)
         ELSE Updated(i, AddArtifact(t),
                      Call("add_artifact", "none", FALSE),
                      "complete", inv[i].progress)
    /\ UNCHANGED <<ninv, push_config, replies, chat, toolVars>>

StreamItemWithoutArtifact(i) ==
    /\ inv[i].pc = "stream"
    /\ \E item \in StreamItems(inv[i].progress) :
         LET t == inv[i].task IN
         IF ~item.is_task_complete /\ ~item.require_user_input
         THEN Updated(i, UpdateStatus(t, "working", TRUE, FALSE),
                      Call("update_status", "working", FALSE),
                      IF item.last THEN "returned" ELSE "stream",
                      inv[i].progress + 1)
         ELSE IF item.require_user_input
         THEN Updated(i, UpdateStatus(t, "input-required", TRUE, TRUE),
                      Call("update_status", "input-required", TRUE),
                      "returned", inv[i].progress)
         ELSE Updated(i, Complete(t),
                      Call("complete", "completed", TRUE),
                      "returned", inv[i].progress)
    /\ UNCHANGED <<ninv, push_config, replies, chat, toolVars>>

\* execute: one turn of "async for item in self.agent.stream(...)", up to
\* the first TaskUpdater call made for the item.
StreamItem(i) ==
    /\ inv[i].pc = "stream"
    /\ \E item \in StreamItems(inv[i].progress) :
         LET t == inv[i].task IN
         IF ~item.is_task_complete /\ ~item.require_user_input
         THEN Updated(i, UpdateStatus(t, "working", TRUE, FALSE),
                      Call("update_status", "working", FALSE),
                      IF item.last THEN "returned" ELSE "stream",
                      inv[i].progress + 1)
         ELSE IF item.require_user_input
         THEN Updated(i, UpdateStatus(t, "input-required", TRUE, TRUE),
                      Call("update_status", "input-required", TRUE),
                      "returned", inv[i].progress)
         ELSE Updated(i, AddArtifact(t),
                      Call("add_artifact", "none", FALSE),
                      "complete", inv[i].progress)
    /\ UNCHANGED <<ninv, push_config, replies, chat, toolVars>>

\* execute: "await updater.complete()" and the break after it
ExecuteComplete(i) ==
    /\ inv[i].pc = "complete"
    /\ Updated(i, Complete(inv[i].task),
               Call("complete", "completed", TRUE),
               "returned", inv[i].progress)
    /\ UNCHANGED <<ninv, push_config, replies, chat, toolVars>>

\* execute: the worker raises while streaming; "except Exception" logs it
\* and raises ServerError(InternalError).
WorkerFault(i) ==
    /\ inv[i].pc = "stream"
    /\ inv' = [inv EXCEPT ![i].pc = "raised", ![i].err = "InternalError",
                          ![i].fault = TRUE]
    /\ signal' = NoSignal
    /\ UNCHANGED <<tasks, events, calls, ninv>>
    /\ UNCHANGED <<push_config, deliveries, replies, chat, toolVars>>

cancelMarksCanceled(t) ==
    /\ tasks[t].exists
    /\ tasks' = [tasks EXCEPT ![t].state = "canceled"]
    /\ signal' = Signal("cancel", t, "none", "UnsupportedOperation")
    /\ UNCHANGED <<events, calls, inv, ninv>>
    /\ UNCHANGED <<push_config, deliveries, replies, chat, toolVars>>

cancelEmitsStatus(t) ==
    /\ tasks[t].exists
    /\ events' = [events EXCEPT ![t] = Enqueue(@,
                    <<Event("status", t, tasks[t].context, "canceled", TRUE)>>)]
    /\ signal' = Signal("cancel", t, "none", "UnsupportedOperation")
    /\ UNCHANGED <<tasks, calls, inv, ninv>>
    /\ UNCHANGED <<push_config, deliveries, replies, chat, toolVars>>

\* WeatherAgentExecutor.cancel
cancel(t) ==
    /\ tasks[t].exists
    /\ signal' = Signal("cancel", t, "none", "UnsupportedOperation")
    /\ UNCHANGED <<tasks, events, calls, inv, ninv>>
    /\ UNCHANGED <<push_config, deliveries, replies, chat, toolVars>>

\* ----------------------------------------------------- streaming delivery
\* The event the transport forwards next: the oldest one not yet forwarded.
NextEvent(i) == inv[i].emitted[Len(inv[i].received) + 1]

\* The stream forwards one event to the client, and ends once the event it
\* forwarded carries final=true.
ForwardEvent(i) ==
    /\ inv[i].ended = 0
    /\ Len(inv[i].received) < Len(inv[i].emitted)
    /\ LET e == NextEvent(i) IN
       inv' = [inv EXCEPT
                 ![i].received = Append(@, e),
                 ![i].ended = IF e.final THEN @ + 1 ELSE @,
                 ![i].closedBy = IF e.final THEN "final" ELSE @]
    /\ signal' = NoSignal
    /\ UNCHANGED <<tasks, events, calls, ninv>>
    /\ UNCHANGED <<push_config, deliveries, replies, chat, toolVars>>

\* The invocation raised: once its events are forwarded the error is
\* surfaced to the client, which ends the stream.
StreamError(i) ==
    /\ inv[i].pc = "raised"
    /\ inv[i].ended = 0
    /\ Len(inv[i].received) = Len(inv[i].emitted)
    /\ inv' = [inv EXCEPT ![i].ended = @ + 1, ![i].closedBy = "error"]
    /\ signal' = NoSignal
    /\ UNCHANGED <<tasks, events, calls, ninv>>
    /\ UNCHANGED <<push_config, deliveries, replies, chat, toolVars>>

\* The client closes a stream it has not read to its end: nothing more is
\* forwarded to it; the worker is not told.
Disconnect(i) ==
    /\ inv[i].pc # "idle"
    /\ inv[i].ended = 0
    /\ inv' = [inv EXCEPT ![i].ended = @ + 1, ![i].closedBy = "disconnect"]
    /\ signal' = NoSignal
    /\ UNCHANGED <<tasks, events, calls, ninv>>
    /\ UNCHANGED <<push_config, deliveries, replies, chat, toolVars>>

\* tasks/get: the current Task snapshot of the id, or NotFound.
GetTask(t) ==
    IF tasks[t].exists
    THEN [kind |-> "task", task |-> t, state |-> tasks[t].state, err |-> "none"]
    ELSE [kind |-> "error", task |-> t, state |-> "none", err |-> "NotFound"]

\* ------------------------------------------- tasks/pushNotificationConfig
\* set_push_notification_config: the params of the request
SetPushPayload(task_id, webhook_url) == [id |-> task_id, url |-> webhook_url]

ConfigSetFirstWins(cfg, t, url) ==
    IF cfg[t] = NoConfig THEN [cfg EXCEPT ![t] = url] ELSE cfg

\* Config store, set(task_id, config): overwrite.
ConfigSet(cfg, t, url) == [cfg EXCEPT ![t] = url]

\* tasks/pushNotificationConfig/set for a stored task.
SetConfig(t, url) ==
    LET p == SetPushPayload(t, url) IN
    /\ tasks[p.id].exists
    /\ push_config' = ConfigSet(push_config, p.id, p.url)
    /\ signal' = Signal("set_config", t, url, "none")
    /\ UNCHANGED <<tasks, events, calls, inv, ninv>>
    /\ UNCHANGED <<deliveries, replies, chat, toolVars>>

\* ------------------------------------------------ blocking message/send
\* No reply yet to the call that started the invocation.
NoReply == [kind |-> "none", task |-> NoTask, state |-> "none", err |-> "none"]

\* The states whose status event a blocking call waits for.
ClosingStates == {"completed", "failed", "input-required"}

IsClosing(e) == e.kind = "status" /\ e.state \in ClosingStates

\* The invocation has produced a terminal-or-pausing event.
HasClosing(i) == \E k \in 1..Len(inv[i].emitted) : IsClosing(inv[i].emitted[k])

\* The first terminal-or-pausing event of the invocation.
FirstClosing(i) ==
    LET q == inv[i].emitted
        k == CHOOSE k \in 1..Len(q) :
               IsClosing(q[k]) /\ \A j \in 1..(k - 1) : ~IsClosing(q[j])
    IN q[k]

\* Synchronous mode: once the first terminal-or-pausing event of the
\* invocation is there, the call returns the current Task snapshot.
SyncReturn(i) ==
    /\ inv[i].pc # "idle"
    /\ replies[i] = NoReply
    /\ HasClosing(i)
    /\ replies' = [replies EXCEPT ![i] =
                     [kind |-> "task", task |-> inv[i].task,
                      state |-> tasks[inv[i].task].state, err |-> "none"]]
    /\ signal' = NoSignal
    /\ UNCHANGED <<tasks, events, calls, inv, ninv>>
    /\ UNCHANGED <<push_config, deliveries, chat, toolVars>>

\* Synchronous mode: the invocation raised before any such event, and the
\* call returns its error.
SyncError(i) ==
    /\ inv[i].pc = "raised"
    /\ replies[i] = NoReply
    /\ ~HasClosing(i)
    /\ replies' = [replies EXCEPT ![i] =
                     [kind |-> "error", task |-> inv[i].task,
                      state |-> "none", err |-> inv[i].err]]
    /\ signal' = NoSignal
    /\ UNCHANGED <<tasks, events, calls, inv, ninv>>
    /\ UNCHANGED <<push_config, deliveries, chat, toolVars>>

\* ------------------------------------------------- the frontend: chat tab
\* The context id of a client session: one id, sent with every message.
SessionContext == 1

\* extract_text_from_result found no text
NoText == ""
\* final_response = None
NoResponse == "none"

\* The text a status message of each state carries, when it carries one.
MessageText ==
    ("submitted" :> "text-submitted") @@ ("working" :> "text-working") @@
    ("input-required" :> "text-input-required") @@
    ("completed" :> "text-completed") @@ ("failed" :> "text-failed") @@
    ("canceled" :> "text-canceled")

\* What a "data: " line of a message/stream response may carry: the Task
\* snapshot of a new task, a status update (a second progress notice has a
\* text of its own), an artifact update, or a JSON-RPC error response. text
\* is what extract_text_from_result finds in the status message or in the
\* artifact.
StreamEvents ==
    {[kind |-> "task", id |-> t, state |-> "submitted", text |-> NoText] :
       t \in TaskIds}
    \cup UNION {{[kind |-> "status-update", id |-> NoTask, state |-> st,
                   text |-> x] : x \in {NoText, MessageText[st]}} :
                  st \in TaskStates}
    \cup {[kind |-> "status-update", id |-> NoTask, state |-> "working",
           text |-> "text-working-2"]}
    \cup {[kind |-> "artifact-update", id |-> NoTask, state |-> "none",
           text |-> x] : x \in {NoText, "text-artifact"}}
    \cup {[kind |-> "error", id |-> NoTask, state |-> "none", text |-> NoText]}

\* "result" in data
HasResult(data) == data.kind # "error"
\* result.get("id"): only a Task carries "id" (updates carry "taskId")
HasId(data) == data.kind = "task"
\* "status" in result
HasStatus(data) == data.kind \in {"task", "status-update"}
\* "artifact" in result
HasArtifact(data) == data.kind = "artifact-update"

\* send_message_stream: the message it posts
StreamPayload(context_id) == [contextId |-> context_id, taskId |-> NoTask]

ChatMessage(role, type, content, raw) ==
    [role |-> role, type |-> type, content |-> content, raw |-> raw]

\* The chat tab of a connected session before the first prompt. chat_messages holds the messages
\* appended for the prompt in hand (those of earlier prompts are displayed,
\* never read or changed); last_status is the state of the status update
\* that was the last event of the latest stream, if it was one.
IdleChat ==
    [pc |-> "idle", turns |-> 0, connected |-> TRUE,
     chat_state |-> "idle", chat_task_id |-> NoTask, task_id |-> NoTask,
     context_id |-> SessionContext, chat_messages |-> <<>>,
     task_history |-> <<>>, sent |-> StreamPayload(SessionContext),
     status_messages |-> <<>>, final_response |-> NoResponse,
     final_state |-> "completed", debug_events |-> <<>>,
     last_status |-> "none", closed_by |-> "none"]

ChatReduceLatestNoteOnly(c, data) ==
    LET c1 == [c EXCEPT !.debug_events = Append(@, data),
                        !.last_status =
                           IF data.kind = "status-update" THEN data.state
                           ELSE "none"]
        c2 == IF HasId(data)
              THEN [c1 EXCEPT !.chat_task_id = data.id, !.task_id = data.id]
              ELSE c1
        c3 == IF ~HasStatus(data) THEN c2
              ELSE IF data.state = "working"
              THEN IF data.text # NoText
                   THEN [c2 EXCEPT !.status_messages = <<data.text>>]
                   ELSE c2
              ELSE IF data.state = "input_required"
              THEN [c2 EXCEPT !.final_state = "input_required",
                              !.final_response =
                                 IF data.text # NoText THEN data.text ELSE @]
              ELSE IF data.state = "completed"
              THEN [c2 EXCEPT !.final_state = "completed",
                              !.final_response =
                                 IF data.text # NoText THEN data.text ELSE @]
              ELSE IF data.state = "failed"
              THEN [c2 EXCEPT !.final_state = "failed",
                              !.final_response =
                                 IF data.text # NoText THEN data.text ELSE @]
              ELSE c2
        c4 == IF HasArtifact(data)
              THEN [c3 EXCEPT !.final_response =
                                 IF data.text # NoText THEN data.text ELSE @,
                              !.final_state = "completed"]
              ELSE c3
    IN IF HasResult(data) THEN c4 ELSE c1

ChatReduceEmptyTextRecorded(c, data) ==
    LET c1 == [c EXCEPT !.debug_events = Append(@, data),
                        !.last_status =
                           IF data.kind = "status-update" THEN data.state
                           ELSE "none"]
        c2 == IF HasId(data)
              THEN [c1 EXCEPT !.chat_task_id = data.id, !.task_id = data.id]
              ELSE c1
        c3 == IF ~HasStatus(data) THEN c2
              ELSE IF data.state = "working"
              THEN IF data.text # NoText
                   THEN [c2 EXCEPT !.status_messages = Append(@, data.text)]
                   ELSE c2
              ELSE IF data.state = "input_required"
              THEN [c2 EXCEPT !.final_state = "input_required",
                              !.final_response =
                                 IF data.text # NoText THEN data.text ELSE @]
              ELSE IF data.state = "completed"
              THEN [c2 EXCEPT !.final_state = "completed",
                              !.final_response = data.text]
              ELSE IF data.state = "failed"
              THEN [c2 EXCEPT !.final_state = "failed",
                              !.final_response =
                                 IF data.text # NoText THEN data.text ELSE @]
              ELSE c2
        c4 == IF HasArtifact(data)
              THEN [c3 EXCEPT !.final_response =
                                 IF data.text # NoText THEN data.text ELSE @,
                              !.final_state = "completed"]
              ELSE c3
    IN IF HasResult(data) THEN c4 ELSE c1

\* Chat mode, one item of type "event": the body of the loop over
\* send_message_stream.
ChatReduce(c, data) ==
    LET c1 == [c EXCEPT !.debug_events = Append(@, data),
                        !.last_status =
                           IF data.kind = "status-update" THEN data.state
                           ELSE "none"]
        c2 == IF HasId(data)
              THEN [c1 EXCEPT !.chat_task_id = data.id, !.task_id = data.id]
              ELSE c1
        c3 == IF ~HasStatus(data) THEN c2
              ELSE IF data.state = "working"
              THEN IF data.text # NoText
                   THEN [c2 EXCEPT !.status_messages = Append(@, data.text)]
                   ELSE c2
              ELSE IF data.state = "input_required"
              THEN [c2 EXCEPT !.final_state = "input_required",
                              !.final_response =
                                 IF data.text # NoText THEN data.text ELSE @]
              ELSE IF data.state = "completed"
              THEN [c2 EXCEPT !.final_state = "completed",
                              !.final_response =
                                 IF data.text # NoText THEN data.text ELSE @]
              ELSE IF data.state = "failed"
              THEN [c2 EXCEPT !.final_state = "failed",
                              !.final_response =
                                 IF data.text # NoText THEN data.text ELSE @]
              ELSE c2
        c4 == IF HasArtifact(data)
              THEN [c3 EXCEPT !.final_response =
                                 IF data.text # NoText THEN data.text ELSE @,
                              !.final_state = "completed"]
              ELSE c3
    IN IF HasResult(data) THEN c4 ELSE c1

ChatTransportErrorKeepsResponse(c) ==
    [c EXCEPT !.final_response = IF @ = NoResponse THEN "Error" ELSE @,
              !.final_state = "failed"]

\* Chat mode, an item of type "error": the transport failed.
ChatTransportError(c) ==
    [c EXCEPT !.final_response = "Error", !.final_state = "failed"]

ChatFinishStateNotUpdated(c) ==
    LET notes == [k \in 1..Len(c.status_messages) |->
                    ChatMessage("assistant", "status", c.status_messages[k],
                                <<>>)]
        m1 == c.chat_messages \o notes
        m2 == IF c.final_response # NoResponse
              THEN Append(m1, ChatMessage("assistant",
                                IF c.final_state = "failed" THEN "error"
                                ELSE "none",
                                c.final_response, <<>>))
              ELSE m1
        m3 == IF c.final_response = NoResponse /\ c.status_messages = <<>>
                 /\ c.debug_events # <<>>
              THEN Append(m2, ChatMessage("assistant", "error",
                                "No text extracted", c.debug_events))
              ELSE m2
        task_info == [id |-> c.chat_task_id, state |-> c.final_state,
                      contextId |-> c.context_id]
    IN [c EXCEPT
          !.pc = "idle",
          !.status_messages = <<>>,
          !.final_response = NoResponse,
          !.final_state = "completed",
          !.debug_events = <<>>,
          !.chat_messages = m3,
          !.chat_state = c.chat_state,
          !.task_history =
             IF c.chat_task_id # NoTask
                /\ \A k \in 1..Len(@) : @[k] # task_info
             THEN Append(@, task_info) ELSE @]

\* Chat mode after the loop: the notes, the response or the diagnostic
\* entry are appended, the state and the task history are updated; the
\* locals of the handler end with it (st.rerun).
ChatFinish(c) ==
    LET notes == [k \in 1..Len(c.status_messages) |->
                    ChatMessage("assistant", "status", c.status_messages[k],
                                <<>>)]
        m1 == c.chat_messages \o notes
        m2 == IF c.final_response # NoResponse
              THEN Append(m1, ChatMessage("assistant",
                                IF c.final_state = "failed" THEN "error"
                                ELSE "none",
                                c.final_response, <<>>))
              ELSE m1
        m3 == IF c.final_response = NoResponse /\ c.status_messages = <<>>
                 /\ c.debug_events # <<>>
              THEN Append(m2, ChatMessage("assistant", "error",
                                "No text extracted", c.debug_events))
              ELSE m2
        task_info == [id |-> c.chat_task_id, state |-> c.final_state,
                      contextId |-> c.context_id]
    IN [c EXCEPT
          !.pc = "idle",
          !.status_messages = <<>>,
          !.final_response = NoResponse,
          !.final_state = "completed",
          !.debug_events = <<>>,
          !.chat_messages = m3,
          !.chat_state = c.final_state,
          !.task_history =
             IF c.chat_task_id # NoTask
                /\ \A k \in 1..Len(@) : @[k] # task_info
             THEN Append(@, task_info) ELSE @]

\* Chat mode: the user enters a prompt (the input is disabled while the
\* state is working) and the message is posted.
ChatPrompt ==
    /\ chat.pc = "idle"
    /\ chat.connected
    /\ chat.chat_state # "working"
    /\ chat.turns < MaxTurns
    /\ chat' = [chat EXCEPT
                  !.pc = "reading",
                  !.turns = @ + 1,
                  !.chat_messages =
                     <<ChatMessage("user", "none", "prompt", <<>>)>>,
                  !.chat_state = "working",
                  !.status_messages = <<>>,
                  !.final_response = NoResponse,
                  !.final_state = "completed",
                  !.debug_events = <<>>,
                  !.last_status = "none",
                  !.closed_by = "none",
                  !.sent = StreamPayload(chat.context_id)]
    /\ UNCHANGED <<tasks, events, calls, inv, ninv, signal>>
    /\ UNCHANGED <<push_config, deliveries, replies, toolVars>>

\* Chat mode: the stream yields one more event.
ChatEvent(data) ==
    /\ chat.pc = "reading"
    /\ Len(chat.debug_events) < MaxItems
    /\ chat' = ChatReduce(chat, data)
    /\ UNCHANGED <<tasks, events, calls, inv, ninv, signal>>
    /\ UNCHANGED <<push_config, deliveries, replies, toolVars>>

\* Chat mode: the stream yields its closing item ("complete" or "error"),
\* the loop ends and the rest of the handler runs.
ChatTurnEnd(closing) ==
    /\ chat.pc = "reading"
    /\ chat' = [ChatFinish(IF closing = "error"
                           THEN ChatTransportError(chat) ELSE chat)
                  EXCEPT !.closed_by = closing]
    /\ UNCHANGED <<tasks, events, calls, inv, ninv, signal>>
    /\ UNCHANGED <<push_config, deliveries, replies, toolVars>>

\* ------------------------------------------- the frontend: the SSE reader
\* The most lines a response carries.
MaxLines == 3

\* A line of the response, as response.iter_lines() gives it: the field it
\* starts with and the text after it; ok tells whether the text is JSON,
\* value what it parses to.
Line(field, ok, value) == [field |-> field, ok |-> ok, value |-> value]

\* The lines that may come k-th: a data line with JSON, a data line whose
\* text is not JSON, an empty line, a line of another field.
LinesAt(k) ==
    {Line("data: ", TRUE, k), Line("data: ", FALSE, k),
     Line("", FALSE, k), Line("event: ", FALSE, k)}

\* The responses of n lines.
RECURSIVE ResponseLines(_)
ResponseLines(n) ==
    IF n = 0 THEN {<<>>}
    ELSE {Append(l, x) : l \in ResponseLines(n - 1), x \in LinesAt(n)}

\* The items the generator yields.
EventItem(data) == [type |-> "event", data |-> data, events |-> <<>>]
CompleteItem(all) == [type |-> "complete", data |-> 0, events |-> all]
ErrorItem == [type |-> "error", data |-> 0, events |-> <<>>]

\* A call of send_message_stream not yet made. lines is the response,
\* fail_at the line at whose reading the transport raises (0: it does not;
\* 1 also stands for a failed connection or an error status), read the
\* number of lines read, events the local list, yielded the items yielded.
NoTransport ==
    [pc |-> "idle", lines |-> <<>>, fail_at |-> 0, read |-> 0,
     events |-> <<>>, yielded |-> <<>>]

\* line.startswith("data: ")
IsDataLine(line) == line.field = "data: "

ResumeEndingOnBadJson(tr) ==
    LET RECURSIVE Scan(_)
        Scan(k) ==
          IF tr.fail_at = k
          THEN [tr EXCEPT !.pc = "done", !.read = k - 1,
                          !.yielded = Append(@, ErrorItem)]
          ELSE IF k > Len(tr.lines)
          THEN [tr EXCEPT !.pc = "done", !.read = k - 1,
                          !.yielded = Append(@, CompleteItem(tr.events))]
          ELSE IF IsDataLine(tr.lines[k])
          THEN IF tr.lines[k].ok
               THEN [tr EXCEPT !.pc = "open", !.read = k,
                               !.events = Append(@, tr.lines[k].value),
                               !.yielded =
                                  Append(@, EventItem(tr.lines[k].value))]
               ELSE [tr EXCEPT !.pc = "done", !.read = k,
                               !.yielded = Append(@, ErrorItem)]
          ELSE Scan(k + 1)
    IN Scan(tr.read + 1)

\* send_message_stream, from one yield to the next: lines are read until a
\* data line parses (the event is kept and yielded), the lines end (the
\* closing item "complete" is yielded) or the transport raises (the closing
\* item "error" is yielded); a data line that is not JSON is passed over.
Resume(tr) ==
    LET RECURSIVE Scan(_)
        Scan(k) ==
          IF tr.fail_at = k
          THEN [tr EXCEPT !.pc = "done", !.read = k - 1,
                          !.yielded = Append(@, ErrorItem)]
          ELSE IF k > Len(tr.lines)
          THEN [tr EXCEPT !.pc = "done", !.read = k - 1,
                          !.yielded = Append(@, CompleteItem(tr.events))]
          ELSE IF IsDataLine(tr.lines[k]) /\ tr.lines[k].ok
          THEN [tr EXCEPT !.pc = "open", !.read = k,
                          !.events = Append(@, tr.lines[k].value),
                          !.yielded =
                             Append(@, EventItem(tr.lines[k].value))]
          ELSE Scan(k + 1)
    IN Scan(tr.read + 1)

\* The caller asks send_message_stream for its next item.
send_message_stream ==
    /\ transport.pc # "done"
    /\ transport' = Resume(transport)
    /\ UNCHANGED <<tasks, events, calls, inv, ninv, signal>>
    /\ UNCHANGED <<push_config, deliveries, replies, chat>>
    /\ UNCHANGED <<extraction, db, forecast, worker>>

\* --------------------------------------------------- session and context
\* The most new conversations a user starts.
MaxConversations == 2

\* str(uuid.uuid4()): an id not used before
FreshContext(c) == c.context_id + 1

\* The page is opened: not connected, a context id of its own.
NewSession == [IdleChat EXCEPT !.connected = FALSE]

SessionUnchanged ==
    /\ UNCHANGED <<tasks, events, calls, inv, ninv, signal>>
    /\ UNCHANGED <<push_config, deliveries, replies, toolVars>>

\* Sidebar, Connect (the agent card was fetched)
Connect ==
    /\ chat.pc = "idle"
    /\ chat.context_id <= MaxConversations
    /\ chat' = [chat EXCEPT !.connected = TRUE,
                            !.context_id = FreshContext(chat),
                            !.task_id = NoTask,
                            !.task_history = <<>>]
    /\ SessionUnchanged

\* Sidebar, Disconnect
SidebarDisconnect ==
    /\ chat.pc = "idle"
    /\ chat' = [chat EXCEPT !.connected = FALSE,
                            !.task_id = NoTask,
                            !.task_history = <<>>]
    /\ SessionUnchanged

\* Chat mode, New Chat
NewChat ==
    /\ chat.pc = "idle"
    /\ chat.connected
    /\ chat.context_id <= MaxConversations
    /\ chat' = [chat EXCEPT !.chat_messages = <<>>,
                            !.chat_task_id = NoTask,
                            !.chat_state = "idle",
                            !.context_id = FreshContext(chat)]
    /\ SessionUnchanged

\* Footer, New Context
NewContext ==
    /\ chat.pc = "idle"
    /\ chat.connected
    /\ chat.context_id <= MaxConversations
    /\ chat' = [chat EXCEPT !.context_id = FreshContext(chat),
                            !.task_id = NoTask]
    /\ SessionUnchanged

TabSendAdoptsContext(id, ctx) ==
    /\ chat.pc = "idle"
    /\ chat.connected
    /\ chat.turns < MaxTurns
    /\ chat' = [chat EXCEPT
                  !.turns = @ + 1,
                  !.sent = StreamPayload(chat.context_id),
                  !.context_id = IF id # NoTask THEN ctx ELSE @,
                  !.task_id = IF id # NoTask THEN id ELSE @,
                  !.task_history =
                     IF id # NoTask
                     THEN Append(@, [id |-> id, state |-> "completed",
                                     contextId |-> ctx])
                     ELSE @]
    /\ SessionUnchanged

\* The message/send and message/stream tabs: a message is sent with the
\* session's context id; the reply names a task (id) or none, and the
\* context id the server gives it.
TabSend(id, ctx) ==
    /\ chat.pc = "idle"
    /\ chat.connected
    /\ chat.turns < MaxTurns
    /\ chat' = [chat EXCEPT
                  !.turns = @ + 1,
                  !.sent = StreamPayload(chat.context_id),
                  !.task_id = IF id # NoTask THEN id ELSE @,
                  !.task_history =
                     IF id # NoTask
                     THEN Append(@, [id |-> id, state |-> "completed",
                                     contextId |-> ctx])
                     ELSE @]
    /\ SessionUnchanged

\* ------------------------------------------------------- text extraction
\* A string is the sequence of its pieces: a word stands for its letters,
\* "nl" for the newline character.
EmptyString == <<>>
Newline == <<"nl">>
\* The texts a part may carry.
PartTexts == {<<"a">>, <<"b">>, <<"text">>}

\* A part of a message or artifact as the JSON gives it: a dict with the
\* keys it has (an absent key is the empty sequence, a present one the
\* sequence of its value), or something that is no dict.
Part(kind, type, text, root) ==
    [dict |-> TRUE, kind |-> kind, type |-> type, text |-> text, root |-> root]
NonDict ==
    [dict |-> FALSE, kind |-> "none", type |-> "none", text |-> <<>>,
     root |-> <<>>]

Parts ==
    {Part("text", "none", <<x>>, <<>>) : x \in PartTexts}
    \cup {Part("none", "text", <<(<<"a">>)>>, <<>>),
          Part("text", "none", <<>>, <<>>),
          Part("file", "none", <<(<<"a">>)>>, <<>>),
          NonDict}
    \cup {Part("none", "none", <<>>, <<r>>) :
            r \in {Part("text", "none", <<(<<"a">>)>>, <<>>),
                   Part("none", "text", <<(<<"b">>)>>, <<>>),
                   Part("file", "none", <<(<<"a">>)>>, <<>>),
                   Part("none", "none", <<>>,
                        <<Part("text", "none", <<(<<"a">>)>>, <<>>)>>),
                   NonDict}}

\* The lists of at most n parts.
RECURSIVE PartLists(_)
PartLists(n) ==
    IF n = 0 THEN {<<>>}
    ELSE PartLists(n - 1)
         \cup {Append(l, q) : l \in {m \in PartLists(n - 1) : Len(m) = n - 1},
                              q \in Parts}

\* A value handed to extract_text_from_result: None, a string, or a dict
\* with the keys "text", "parts", "message" and "root" it has.
NoneValue ==
    [type |-> "none", str |-> EmptyString, text |-> <<>>, parts |-> <<>>,
     message |-> <<>>, root |-> <<>>]
Str(x) == [NoneValue EXCEPT !.type = "str", !.str = x]
Dict(text, parts, message, root) ==
    [type |-> "dict", str |-> EmptyString, text |-> text, parts |-> parts,
     message |-> message, root |-> root]

\* What a call returns, or the exception it raises.
Returned(x) == [ok |-> TRUE, val |-> x, err |-> "none"]
Raised(err) == [ok |-> FALSE, val |-> EmptyString, err |-> err]

\* dict.get(key, default) on an optional key
Get(opt, default) == IF opt = <<>> THEN default ELSE opt[1]

\* part.get("kind") == "text" or part.get("type") == "text"
IsTextTagged(part) == part.kind = "text" \/ part.type = "text"

\* extract_text_from_parts, the body of the loop: what one part appends to
\* texts.
PartTextsAppended(part) ==
    IF ~part.dict THEN <<>>
    ELSE IF IsTextTagged(part) THEN <<Get(part.text, EmptyString)>>
    ELSE IF part.root # <<>>
    THEN IF part.root[1].dict /\ IsTextTagged(part.root[1])
         THEN <<Get(part.root[1].text, EmptyString)>>
         ELSE <<>>
    ELSE <<>>

\* extract_text_from_parts: the list texts after the loop
RECURSIVE TextsOf(_)
TextsOf(parts) ==
    IF parts = <<>> THEN <<>>
    ELSE PartTextsAppended(Head(parts)) \o TextsOf(Tail(parts))

JoinPlain(sep, texts) ==
    LET RECURSIVE J(_)
        J(ts) == IF ts = <<>> THEN EmptyString ELSE Head(ts) \o J(Tail(ts))
    IN J(texts)

\* str.join
Join(sep, texts) ==
    LET RECURSIVE J(_)
        J(ts) == IF ts = <<>> THEN EmptyString
                 ELSE IF Len(ts) = 1 THEN Head(ts)
                 ELSE Head(ts) \o sep \o J(Tail(ts))
    IN J(texts)

extract_text_from_parts(parts) ==
    IF parts = <<>> THEN EmptyString ELSE Join(Newline, TextsOf(parts))

\* "<word> in obj" on a string: the word occurs in it
Occurs(word, x) == \E k \in 1..Len(x) : x[k] = word

\* extract_text_from_result
RECURSIVE extract_text_from_result(_)
extract_text_from_result(obj) ==
    IF obj.type = "none" THEN Returned(EmptyString)
    ELSE IF obj.type = "str"
    THEN IF obj.str = EmptyString THEN Returned(EmptyString)
         ELSE IF \E w \in {"text", "parts", "message", "root"} :
                   Occurs(w, obj.str)
         THEN Raised("TypeError")
         ELSE Returned(EmptyString)
    ELSE IF obj.text = <<>> /\ obj.parts = <<>> /\ obj.message = <<>>
            /\ obj.root = <<>>
    THEN Returned(EmptyString)
    ELSE IF obj.text # <<>> THEN Returned(obj.text[1])
    ELSE IF obj.parts # <<>>
    THEN Returned(extract_text_from_parts(obj.parts[1]))
    ELSE IF obj.message # <<>> THEN extract_text_from_result(obj.message[1])
    ELSE extract_text_from_result(obj.root[1])

\* The most parts a message or artifact has.
MaxParts == 2

\* A message or an artifact with the given parts.
WithParts(parts) == Dict(<<>>, <<parts>>, <<>>, <<>>)

\* The payloads text is extracted from: a message or artifact, bare or
\* wrapped in "message" or "root"; a dict with a "text" field; None, the
\* empty dict, and plain strings.
Payloads ==
    UNION {{WithParts(l),
            Dict(<<>>, <<>>, <<WithParts(l)>>, <<>>),
            Dict(<<>>, <<>>, <<>>, <<WithParts(l)>>),
            Dict(<<>>, <<>>, <<>>,
                 <<Dict(<<>>, <<>>, <<WithParts(l)>>, <<>>)>>)} :
             l \in PartLists(MaxParts)}
    \cup {Dict(<<x>>, <<>>, <<>>, <<>>) : x \in PartTexts}
    \cup {NoneValue, Dict(<<>>, <<>>, <<>>, <<>>)}
    \cup {Str(x) : x \in PartTexts \cup {EmptyString, <<"a", "nl", "b">>}}

NoExtraction == [pc |-> "idle"]

\* A call of extract_text_from_result on a payload.
Extract ==
    /\ extraction.pc = "given"
    /\ extraction' = [extraction EXCEPT
                        !.pc = "extracted",
                        !.out = extract_text_from_result(extraction.obj)]
    /\ UNCHANGED <<tasks, events, calls, inv, ninv, signal>>
    /\ UNCHANGED <<push_config, deliveries, replies, chat, db, forecast, worker, transport>>

\* The text a call returned is given to extract_text_from_result again.
ExtractAgain ==
    /\ extraction.pc = "extracted"
    /\ extraction.out.ok
    /\ extraction' = [extraction EXCEPT
                        !.pc = "again",
                        !.again =
                           extract_text_from_result(Str(extraction.out.val))]
    /\ UNCHANGED <<tasks, events, calls, inv, ninv, signal>>
    /\ UNCHANGED <<push_config, deliveries, replies, chat, db, forecast, worker, transport>>

\* ----------------------------------------------------- weather database
\* The most calls that write to the database.
MaxWrites == 2
\* The most steps the clock is advanced.
MaxTicks == 2
\* One step of the clock, in minutes.
TickMinutes == 15
\* get_cached_weather: max_age_minutes: int = 30
DefaultMaxAgeMinutes == 30

\* The offset of the machine's local time from UTC, in minutes.
TzOffsets == {0 - 300, 0, 540}

Cities == {"Seoul", "seoul", "Tokyo"}

\* str.lower
Lower(city) == IF city = "Seoul" THEN "seoul"
               ELSE IF city = "Tokyo" THEN "tokyo"
               ELSE city

\* The weather data a caller caches.
WeatherData ==
    {[city |-> "Seoul", temperature |-> 20],
     [city |-> "Tokyo", temperature |-> 15]}

\* json.dumps and json.loads on such data
JsonDumps(data) == [json |-> data]
JsonLoads(text) == text.json

\* None, and a value returned
None == <<>>
Some(x) == <<x>>

\* A database just initialised by init_db: both tables empty. utc is the
\* time in minutes, tz the local offset; log lists the cache_weather calls
\* made, result is what the last read returned.
EmptyDb ==
    [pc |-> "idle", tz |-> 0, utc |-> 0,
     weather_cache |-> {}, cache_seq |-> 0,
     weather_queries |-> <<>>,
     log |-> <<>>, asked |-> [city |-> "none", limit |-> 0],
     result |-> None, history |-> <<>>, total |-> 0]

\* SQLite CURRENT_TIMESTAMP: the UTC time
CurrentTimestamp(d) == d.utc

\* datetime.now(): the local time, without zone
DatetimeNow(d) == d.utc + d.tz

DbUnchanged ==
    /\ UNCHANGED <<tasks, events, calls, inv, ninv, signal>>
    /\ UNCHANGED <<push_config, deliveries, replies, chat>>
    /\ UNCHANGED <<extraction, forecast, worker, transport>>

\* Time passes.
Tick ==
    /\ db.utc < MaxTicks * TickMinutes
    /\ db' = [db EXCEPT !.utc = @ + TickMinutes, !.pc = "idle"]
    /\ DbUnchanged

\* INSERT OR REPLACE INTO weather_cache: a row with the same (unique) city
\* is deleted, the new row is inserted under the next id.
InsertOrReplace(rows, id, city, data_json, updated_at) ==
    {r \in rows : r.city # city}
    \cup {[id |-> id, city |-> city, data_json |-> data_json,
           updated_at |-> updated_at]}

\* cache_weather
cache_weather(city, data) ==
    /\ Len(db.log) < MaxWrites
    /\ db' = [db EXCEPT
                !.pc = "cached",
                !.weather_cache =
                   InsertOrReplace(@, db.cache_seq + 1, Lower(city),
                                   JsonDumps(data), CurrentTimestamp(db)),
                !.cache_seq = @ + 1,
                !.log = Append(@, [city |-> city, data |-> data,
                                   at |-> db.utc])]
    /\ DbUnchanged

\* get_cached_weather: the row of the city, if it is younger than the
\* maximum age by the local clock.
CachedWeather(d, city, max_age_minutes) ==
    LET rows == {r \in d.weather_cache : r.city = Lower(city)} IN
    IF rows = {} THEN None
    ELSE LET row == CHOOSE r \in rows : TRUE IN
         IF DatetimeNow(d) - row.updated_at < max_age_minutes
         THEN Some(JsonLoads(row.data_json))
         ELSE None

get_cached_weather(city) ==
    /\ db.pc # "read"
    /\ db' = [db EXCEPT
                !.pc = "read",
                !.asked = [city |-> city, limit |-> 0],
                !.result = CachedWeather(db, city, DefaultMaxAgeMinutes)]
    /\ DbUnchanged

\* The city filters a caller passes to get_weather_history.
Filters == {"", "seoul", "S_o"}

\* The characters of a city name or filter.
Chars(x) ==
    CASE x = "Seoul" -> <<"S", "e", "o", "u", "l">>
      [] x = "seoul" -> <<"s", "e", "o", "u", "l">>
      [] x = "Tokyo" -> <<"T", "o", "k", "y", "o">>
      [] x = "S_o" -> <<"S", "_", "o">>
      [] OTHER -> <<>>

\* SQLite compares ASCII letters in LIKE without regard to case.
Fold(ch) == IF ch = "S" THEN "s" ELSE IF ch = "T" THEN "t" ELSE ch

LikeCaseSensitive(pattern, text) ==
    LET RECURSIVE M(_, _)
        M(p, t) ==
          IF p = <<>> THEN t = <<>>
          ELSE IF Head(p) = "%"
          THEN \E k \in 0..Len(t) : M(Tail(p), SubSeq(t, k + 1, Len(t)))
          ELSE /\ t # <<>>
               /\ Head(p) = Head(t)
               /\ M(Tail(p), Tail(t))
    IN M(pattern, text)

\* SQL: text LIKE pattern ("%" any run of characters, "_" any one)
Like(pattern, text) ==
    LET RECURSIVE M(_, _)
        M(p, t) ==
          IF p = <<>> THEN t = <<>>
          ELSE IF Head(p) = "%"
          THEN \E k \in 0..Len(t) : M(Tail(p), SubSeq(t, k + 1, Len(t)))
          ELSE /\ t # <<>>
               /\ Head(p) = "_" \/ Fold(Head(p)) = Fold(Head(t))
               /\ M(Tail(p), Tail(t))
    IN M(pattern, text)

\* The limits a caller passes (the default is 10).
Limits == (0 - 1)..MaxWrites

\* The results a caller saves.
QueryResults ==
    {[country |-> "KR", temperature |-> 20, description |-> "clear sky"]}

\* save_weather_query, a successful call: one more row, under the next id
\* and with the current timestamp.
save_weather_query(city, query_type, result) ==
    /\ Len(db.weather_queries) < MaxWrites
    /\ db' = [db EXCEPT
                !.pc = "saved",
                !.weather_queries =
                   Append(@, [id |-> Len(@) + 1, city |-> city,
                              country |-> result.country,
                              query_type |-> query_type,
                              temperature |-> result.temperature,
                              description |-> result.description,
                              result_json |-> JsonDumps(result),
                              created_at |-> CurrentTimestamp(db)])]
    /\ DbUnchanged

\* get_weather_history: the rows the WHERE clause selects (all rows when the
\* filter is empty), by their ids
Selected(d, city) ==
    {k \in 1..Len(d.weather_queries) :
       \/ city = ""
       \/ Like(<<"%">> \o Chars(city) \o <<"%">>,
               Chars(d.weather_queries[k].city))}

\* ORDER BY created_at DESC: the orders the database may return the
\* selected rows in (rows of one timestamp come in any order)
Ordered(d, ids) ==
    {q \in [1..Cardinality(ids) -> ids] :
       /\ \A i, j \in 1..Cardinality(ids) : i # j => q[i] # q[j]
       /\ \A i, j \in 1..Cardinality(ids) :
            i < j => d.weather_queries[q[i]].created_at
                       >= d.weather_queries[q[j]].created_at}

\* LIMIT ?: the first rows, all of them when the limit is negative
Limit(q, limit) ==
    IF limit < 0 \/ limit >= Len(q) THEN q ELSE SubSeq(q, 1, limit)

\* get_weather_history: the record built from a row
HistoryRecord(row) ==
    [city |-> row.city, country |-> row.country,
     query_type |-> row.query_type, temperature |-> row.temperature,
     description |-> row.description, queried_at |-> row.created_at]

get_weather_history(city, limit) ==
    /\ db.pc # "history"
    /\ \E q \in Ordered(db, Selected(db, city)) :
         LET rows == Limit(q, limit)
             history == [k \in 1..Len(rows) |->
                           HistoryRecord(db.weather_queries[rows[k]])]
         IN db' = [db EXCEPT
                     !.pc = "history",
                     !.asked = [city |-> city, limit |-> limit],
                     !.history = history,
                     !.total = Len(history)]
    /\ DbUnchanged

\* ------------------------------------------------------ weather forecast
\* The longest list of a forecast response.
MaxList == 6

\* if len(forecasts) >= 5: break
MaxForecasts == 5

\* x.split(' '), of a string given by its pieces (" " is a space)
Split(x) ==
    LET RECURSIVE S(_, _)
        S(rest, word) ==
          IF rest = <<>> THEN <<word>>
          ELSE IF Head(rest) = " " THEN <<word>> \o S(Tail(rest), <<>>)
          ELSE S(Tail(rest), Append(word, Head(rest)))
    IN S(x, <<>>)

\* The i-th item of a response list: the forecast of one 3-hour slot. An
\* item of date 0 has no dt_txt, one of a negative date a dt_txt that
\* starts with a space.
Item(date, i) ==
    LET base == [main |-> [temp |-> i, feels_like |-> i - 1,
                           humidity |-> 50 + i],
                 weather |-> <<[description |-> <<"sky", i>>]>>,
                 wind |-> [speed |-> i]]
    IN IF date = 0 THEN base
       ELSE [dt_txt |-> IF date < 0 THEN <<" ", <<"slot", i>>>>
                        ELSE <<<<"day", date>>, " ", <<"slot", i>>>>]
            @@ base

\* The number of days among the first n dates of a list of dates.
RECURSIVE DayCount(_, _)
DayCount(dates, n) ==
    IF n = 0 THEN 0
    ELSE LET before == DayCount(dates, n - 1) IN
         IF dates[n] > before THEN dates[n] ELSE before

\* The dates of the response lists of n items: an item is of a day already
\* in the list or of the next day, or has no date.
RECURSIVE DatesOfLen(_)
DatesOfLen(n) ==
    IF n = 0 THEN {<<>>}
    ELSE UNION {{Append(dates, date) :
                   date \in (0 - 1)..(DayCount(dates, n - 1) + 1)} :
                dates \in DatesOfLen(n - 1)}

\* The response lists of up to n items.
Lists(n) ==
    {[i \in 1..Len(dates) |-> Item(dates[i], i)] :
       dates \in UNION {DatesOfLen(k) : k \in 0..n}}

\* The successful forecast responses.
Responses(n) ==
    {[city |-> [name |-> "Seoul", country |-> "KR"], list |-> l] :
       l \in Lists(n)}

\* item.get('dt_txt', '').split(' ')[0]
ItemDate(item) ==
    Split(IF "dt_txt" \in DOMAIN item THEN item.dt_txt ELSE EmptyString)[1]

\* The entry appended for an item.
ForecastEntry(item) ==
    [date |-> ItemDate(item),
     temperature |-> item.main.temp,
     feels_like |-> item.main.feels_like,
     humidity |-> item.main.humidity,
     description |-> item.weather[1].description,
     wind_speed |-> item.wind.speed]

ForecastsKeepingEveryItem(list) ==
    LET RECURSIVE Loop(_, _, _)
        Loop(rest, forecasts, seen_dates) ==
          IF rest = <<>> THEN forecasts
          ELSE LET date == ItemDate(Head(rest)) IN
               IF date # EmptyString
               THEN LET appended == Append(forecasts,
                                           ForecastEntry(Head(rest)))
                    IN IF Len(appended) >= MaxForecasts THEN appended
                       ELSE Loop(Tail(rest), appended,
                                 seen_dates \cup {date})
               ELSE Loop(Tail(rest), forecasts, seen_dates)
    IN Loop(list, <<>>, {})

\* The loop over data.get('list', []): the first item of each date gives an
\* entry, and the loop ends with the fifth entry.
Forecasts(list) ==
    LET RECURSIVE Loop(_, _, _)
        Loop(rest, forecasts, seen_dates) ==
          IF rest = <<>> THEN forecasts
          ELSE LET date == ItemDate(Head(rest)) IN
               IF date # EmptyString /\ date \notin seen_dates
               THEN LET appended == Append(forecasts,
                                           ForecastEntry(Head(rest)))
                    IN IF Len(appended) >= MaxForecasts THEN appended
                       ELSE Loop(Tail(rest), appended,
                                 seen_dates \cup {date})
               ELSE Loop(Tail(rest), forecasts, seen_dates)
    IN Loop(list, <<>>, {})

\* os.getenv('OPENWEATHER_API_KEY'): unset, set to the empty string, set
ApiKeys == {None, Some(""), Some("test_api_key")}

\* What httpx.get, raise_for_status and response.json() come to: a
\* transport error, an error status, a body that is not JSON, a JSON body
\* that is null or a list, or ("ok") a JSON object, held in data.
HttpOutcomes ==
    {"ok", "ConnectError", "ReadTimeout", "404", "500", "invalid_json",
     "json_null", "json_list"}

\* The units a caller passes.
Units == {"metric", "imperial"}

NoForecast ==
    [pc |-> "idle",
     tool |-> "get_weather_forecast",
     api_key |-> Some("test_api_key"),
     units |-> "metric",
     http |-> "ok",
     data |-> [city |-> [name |-> "Seoul", country |-> "KR"],
               list |-> <<>>],
     requests |-> 0,
     returned |-> None,
     raised |-> "none"]

\* if not api_key
KeyMissing(f) == f.api_key = None \/ f.api_key = Some("")

\* {'error': ...}, the message given by its parts
Error(message) == [error |-> message]

\* d.get(outer, {}).get(inner)
GetIn(d, outer, inner) ==
    IF outer \in DOMAIN d /\ inner \in DOMAIN d[outer]
    THEN d[outer][inner] ELSE None

\* d.get(key)
GetKey(d, key) == IF key \in DOMAIN d THEN d[key] ELSE None

\* The except clauses of both tools: what is returned for an HTTP error or
\* a body that is not JSON.
ApiFailure(f) ==
    CASE f.http = "404" -> Error(<<"City", "Seoul", "not found.">>)
      [] f.http \in {"500", "ConnectError", "ReadTimeout"}
           -> Error(<<"API request failed:", f.http>>)
      [] f.http = "invalid_json"
           -> Error(<<"Invalid JSON response from API.">>)

\* The outcomes the except clauses catch.
Caught == {"404", "500", "ConnectError", "ReadTimeout", "invalid_json"}

KeyError ==
    Error(<<"OPENWEATHER_API_KEY", "environment variable not set.">>)

\* get_current_weather: what the call returns or raises
CurrentWeather(f) ==
    IF KeyMissing(f) THEN Returned(KeyError)
    ELSE IF f.http \in Caught THEN Returned(ApiFailure(f))
    ELSE IF f.http \in {"json_null", "json_list"}
    THEN Raised("AttributeError")
    ELSE IF "weather" \in DOMAIN f.data /\ f.data.weather = <<>>
    THEN Raised("IndexError")
    ELSE Returned(
           [city |-> GetKey(f.data, "name"),
            country |-> GetIn(f.data, "sys", "country"),
            temperature |-> GetIn(f.data, "main", "temp"),
            feels_like |-> GetIn(f.data, "main", "feels_like"),
            humidity |-> GetIn(f.data, "main", "humidity"),
            description |->
               IF "weather" \in DOMAIN f.data
               THEN GetKey(f.data.weather[1], "description") ELSE None,
            wind_speed |-> GetIn(f.data, "wind", "speed"),
            units |-> f.units])

\* get_weather_forecast: what the call returns or raises
WeatherForecast(f) ==
    IF KeyMissing(f) THEN Returned(KeyError)
    ELSE IF f.http \in Caught THEN Returned(ApiFailure(f))
    ELSE IF f.http \in {"json_null", "json_list"}
    THEN Raised("AttributeError")
    ELSE Returned(
           [city |-> GetIn(f.data, "city", "name"),
            country |-> GetIn(f.data, "city", "country"),
            forecasts |-> Forecasts(IF "list" \in DOMAIN f.data
                                    THEN f.data.list ELSE <<>>),
            units |-> f.units])

\* The call made: an HTTP request is issued unless the key is missing.
Called(f, result) ==
    [f EXCEPT !.pc = "done",
              !.requests = IF KeyMissing(f) THEN @ ELSE @ + 1,
              !.returned = IF result.ok THEN Some(result.val) ELSE None,
              !.raised = result.err]

ApiUnchanged ==
    /\ UNCHANGED <<tasks, events, calls, inv, ninv, signal>>
    /\ UNCHANGED <<push_config, deliveries, replies, chat>>
    /\ UNCHANGED <<extraction, db, worker, transport>>

get_current_weather ==
    /\ forecast.pc = "idle"
    /\ forecast.tool = "get_current_weather"
    /\ forecast' = Called(forecast, CurrentWeather(forecast))
    /\ ApiUnchanged

get_weather_forecast ==
    /\ forecast.pc = "idle"
    /\ forecast.tool = "get_weather_forecast"
    /\ forecast' = Called(forecast, WeatherForecast(forecast))
    /\ ApiUnchanged

\* The JSON objects the current-weather endpoint may answer with.
CurrentBodies ==
    {[name |-> "Seoul", sys |-> [country |-> "KR"],
      main |-> [temp |-> 20, feels_like |-> 19, humidity |-> 65],
      weather |-> <<[description |-> "clear sky"]>>,
      wind |-> [speed |-> 3]],
     [name |-> "Seoul"],
     [name |-> "Seoul", weather |-> <<>>]}

\* The JSON objects the forecast endpoint may answer with.
ForecastBodies ==
    {[city |-> [name |-> "Seoul", country |-> "KR"], list |-> l] :
       l \in Lists(1)}
    \cup {[city |-> [name |-> "Seoul", country |-> "KR"]]}

\* The calls of the two tools: the environment, the arguments and what the
\* HTTP request comes to.
ApiCalls ==
    {[NoForecast EXCEPT !.tool = tool, !.api_key = key, !.units = units,
                        !.http = http, !.data = data] :
       tool \in {"get_current_weather"}, key \in ApiKeys, units \in Units,
       http \in HttpOutcomes \ {"ok"},
       data \in {[name |-> "Seoul"]}}
    \cup
    {[NoForecast EXCEPT !.tool = tool, !.api_key = key, !.units = units,
                        !.data = data] :
       tool \in {"get_current_weather"}, key \in ApiKeys, units \in Units,
       data \in CurrentBodies}
    \cup
    {[NoForecast EXCEPT !.api_key = key, !.units = units, !.http = http] :
       key \in ApiKeys, units \in Units, http \in HttpOutcomes \ {"ok"}}
    \cup
    {[NoForecast EXCEPT !.api_key = key, !.units = units, !.data = data] :
       key \in ApiKeys, units \in Units, data \in ForecastBodies}

\* ------------------------------------------------------- specifications
InitBridge ==
    /\ tasks = [t \in TaskIds |-> NoTaskRecord]
    /\ events = [t \in TaskIds |-> <<>>]
    /\ calls = [t \in TaskIds |-> <<>>]
    /\ inv = [i \in InvIds |-> IdleInv]
    /\ ninv = 0
    /\ signal = NoSignal
    /\ push_config = [t \in TaskIds |-> NoConfig]
    /\ deliveries = <<>>
    /\ replies = [i \in InvIds |-> NoReply]

Init ==
    /\ InitBridge
    /\ chat = IdleChat
    /\ extraction = NoExtraction
    /\ db = EmptyDb
    /\ forecast = NoForecast
    /\ worker = AnyWorker
    /\ transport = NoTransport

\* The task a client's next message may refer to: none, or the task of its
\* latest request (the follow-up of test_client reuses the ids it was returned).
ClientTasks == {NoTask} \cup (IF ninv > 0 THEN {inv[ninv].task} ELSE {})

\* The bridge under concurrent requests: every request runs execute at once.
Next ==
    \/ \E cur \in TaskIds \cup {NoTask}, ctx \in MessageContexts :
         ExecuteStart(cur, ctx)
    \/ \E i \in InvIds : StreamItem(i)
    \/ \E i \in InvIds : ExecuteComplete(i)
    \/ \E i \in InvIds : WorkerFault(i)

Spec == Init /\ [][Next]_vars

\* One streaming client: it sends its next message once the stream of the
\* previous one has ended (send_message_stream is read to its end), and it
\* may ask for cancellation at any time.
NextStream ==
    \/ /\ \A i \in InvIds : inv[i].pc # "idle" => inv[i].ended > 0
       /\ \E cur \in ClientTasks : ExecuteStart(cur, SessionContext)
    \/ \E i \in InvIds : StreamItem(i)
    \/ \E i \in InvIds : ExecuteComplete(i)
    \/ \E i \in InvIds : WorkerFault(i)
    \/ \E i \in InvIds : ForwardEvent(i)
    \/ \E i \in InvIds : StreamError(i)
    \/ \E t \in TaskIds : cancel(t)

SpecStream == Init /\ [][NextStream]_vars

\* Another holder of a TaskUpdater bound to the task t of the latest request
\* closes the task: it reports a failure or marks the task canceled.
LifecycleStatus(t, state) ==
    /\ ninv > 0
    /\ t = inv[ninv].task
    /\ LET r == UpdateStatus(t, state, TRUE, TRUE) IN
       IF r.err # "none"
       THEN /\ signal' = Signal("update_status", t, state, r.err)
            /\ UNCHANGED <<tasks, events, calls, deliveries>>
       ELSE /\ tasks' = [tasks EXCEPT ![t] = r.task]
            /\ events' = [events EXCEPT ![t] = Enqueue(@, r.out)]
            /\ calls' = [calls EXCEPT ![t] = Append(@,
                           Call("update_status", state, TRUE))]
            /\ deliveries' \in Notify(t, r)
            /\ signal' = NoSignal
    /\ UNCHANGED <<inv, ninv, push_config, replies, chat, toolVars>>

\* Requests one after the other, with other lifecycle calls on the same
\* tasks arriving at any time.
NextLifecycle ==
    \/ /\ \A i \in InvIds : inv[i].pc \in {"idle", "returned", "raised"}
       /\ \E cur \in ClientTasks : ExecuteStart(cur, SessionContext)
    \/ \E i \in InvIds : StreamItem(i)
    \/ \E i \in InvIds : ExecuteComplete(i)
    \/ \E i \in InvIds : WorkerFault(i)
    \/ \E t \in TaskIds, s \in {"failed", "canceled"} : LifecycleStatus(t, s)

SpecLifecycle == Init /\ [][NextLifecycle]_vars

\* One streaming request that opens a task: the client may close the stream
\* before its end and may set the webhook of the task at any time.
NextPush ==
    \/ /\ ninv = 0
       /\ ExecuteStart(NoTask, SessionContext)
    \/ \E i \in InvIds : StreamItem(i)
    \/ \E i \in InvIds : ExecuteComplete(i)
    \/ \E i \in InvIds : WorkerFault(i)
    \/ \E i \in InvIds : ForwardEvent(i)
    \/ \E i \in InvIds : StreamError(i)
    \/ \E i \in InvIds : Disconnect(i)
    \/ \E t \in TaskIds, url \in WebhookUrls : SetConfig(t, url)

SpecPush == Init /\ [][NextPush]_vars

\* One client of the blocking message/send: it sends its next message once
\* the previous call has returned.
NextSync ==
    \/ /\ \A i \in InvIds : inv[i].pc # "idle" => replies[i] # NoReply
       /\ \E cur \in ClientTasks : ExecuteStart(cur, SessionContext)
    \/ \E i \in InvIds : StreamItem(i)
    \/ \E i \in InvIds : ExecuteComplete(i)
    \/ \E i \in InvIds : WorkerFault(i)
    \/ \E i \in InvIds : SyncReturn(i)
    \/ \E i \in InvIds : SyncError(i)

SpecSync == Init /\ [][NextSync]_vars

\* The weather cache on a machine in some time zone.
InitCache ==
    /\ InitBridge
    /\ chat = IdleChat
    /\ extraction = NoExtraction
    /\ db \in {[EmptyDb EXCEPT !.tz = z] : z \in TzOffsets}
    /\ forecast = NoForecast
    /\ worker = AnyWorker
    /\ transport = NoTransport

NextCache ==
    \/ Tick
    \/ \E city \in Cities, data \in WeatherData : cache_weather(city, data)
    \/ \E city \in Cities : get_cached_weather(city)

SpecCache == InitCache /\ [][NextCache]_vars

\* The forecast tool on every response.
InitForecast ==
    /\ InitBridge
    /\ chat = IdleChat
    /\ extraction = NoExtraction
    /\ db = EmptyDb
    /\ forecast \in {[NoForecast EXCEPT !.data = r] : r \in Responses(MaxList)}
    /\ worker = AnyWorker
    /\ transport = NoTransport

NextForecast == get_weather_forecast

SpecForecast == InitForecast /\ [][NextForecast]_vars

\* One request that opens a task, for every final graph state of the run.
InitWorker ==
    /\ InitBridge
    /\ chat = IdleChat
    /\ extraction = NoExtraction
    /\ db = EmptyDb
    /\ forecast = NoForecast
    /\ worker \in {[fixed |-> TRUE, g |-> g] : g \in GraphStates}
    /\ transport = NoTransport

NextWorker ==
    \/ /\ ninv = 0
       /\ ExecuteStart(NoTask, SessionContext)
    \/ \E i \in InvIds : StreamItem(i)
    \/ \E i \in InvIds : ExecuteComplete(i)
    \/ \E i \in InvIds : WorkerFault(i)

SpecWorker == InitWorker /\ [][NextWorker]_vars

\* send_message_stream on every response and every failure of the transport.
InitTransport ==
    /\ InitBridge
    /\ chat = IdleChat
    /\ extraction = NoExtraction
    /\ db = EmptyDb
    /\ forecast = NoForecast
    /\ worker = AnyWorker
    /\ transport \in {[NoTransport EXCEPT !.lines = l, !.fail_at = f] :
                        l \in UNION {ResponseLines(n) : n \in 0..MaxLines},
                        f \in 0..(MaxLines + 1)}
    /\ transport.fail_at <= Len(transport.lines) + 1

NextTransport == send_message_stream

SpecTransport == InitTransport /\ [][NextTransport]_vars

\* The two API tools on every call.
InitApi ==
    /\ InitBridge
    /\ chat = IdleChat
    /\ extraction = NoExtraction
    /\ db = EmptyDb
    /\ forecast \in ApiCalls
    /\ worker = AnyWorker
    /\ transport = NoTransport

NextApi == get_current_weather \/ get_weather_forecast

SpecApi == InitApi /\ [][NextApi]_vars

\* The query history: saves, reads and the passing of time.
NextHistory ==
    \/ Tick
    \/ \E city \in Cities, result \in QueryResults :
         save_weather_query(city, "current", result)
    \/ \E city \in Filters, limit \in Limits :
         get_weather_history(city, limit)

SpecHistory == Init /\ [][NextHistory]_vars

\* The events of a chat turn in a session: of each kind and state, the one
\* that carries a text, and the error response.
SessionEvents ==
    {e \in StreamEvents :
       \/ e.kind \in {"task", "error"}
       \/ e.kind = "artifact-update" /\ e.text # NoText
       \/ e.kind = "status-update" /\ e.text = MessageText[e.state]
          /\ e.state \in {"working", "input-required", "completed", "failed"}}

\* The frontend session: the sidebar, the chat tab and the two send tabs.
InitSession ==
    /\ InitBridge
    /\ chat = NewSession
    /\ extraction = NoExtraction
    /\ db = EmptyDb
    /\ forecast = NoForecast
    /\ worker = AnyWorker
    /\ transport = NoTransport

NextSession ==
    \/ Connect
    \/ SidebarDisconnect
    \/ NewChat
    \/ NewContext
    \/ \E id \in {NoTask, 1}, ctx \in {chat.context_id, FreshContext(chat)} :
         TabSend(id, ctx)
    \/ ChatPrompt
    \/ \E data \in SessionEvents : ChatEvent(data)
    \/ \E closing \in {"complete", "error"} : ChatTurnEnd(closing)

SpecSession == InitSession /\ [][NextSession]_vars

\* Text extraction over every payload of the bounded set.
InitExtract ==
    /\ InitBridge
    /\ chat = IdleChat
    /\ extraction \in {[pc |-> "given", obj |-> o, out |-> Returned(EmptyString),
                         again |-> Returned(EmptyString)] : o \in Payloads}
    /\ db = EmptyDb
    /\ forecast = NoForecast
    /\ worker = AnyWorker
    /\ transport = NoTransport

NextExtract == Extract \/ ExtractAgain

SpecExtract == InitExtract /\ [][NextExtract]_vars

\* The chat tab under every stream a server may send it.
NextChat ==
    \/ ChatPrompt
    \/ \E data \in StreamEvents : ChatEvent(data)
    \/ \E closing \in {"complete", "error"} : ChatTurnEnd(closing)

SpecChat == Init /\ [][NextChat]_vars

\* ---------------------------------------------------------------- claims
Running(i) == inv[i].pc \in {"stream", "complete"}

\* C1: once the stored state of a task is completed, failed or canceled, no
\* later lifecycle call is accepted for it: every such call signals
\* InvalidTransition, and the stored state and the events of the task stay
\* as they were.
C1_TerminalStateIsFinal ==
    [][\A t \in TaskIds :
         tasks[t].state \in Terminal =>
           /\ tasks'[t].state = tasks[t].state
           /\ tasks'[t].artifacts = tasks[t].artifacts
           /\ events'[t] = events[t]
           /\ calls'[t] = calls[t]
           /\ signal'.task = t /\ signal'.call = "update_status"
                => signal'.err = "InvalidTransition"]_vars

\* update_status(failed) was just refused on a completed task
C1_Witness ==
    /\ signal.call = "update_status"
    /\ signal.arg = "failed"
    /\ signal.err = "InvalidTransition"
    /\ tasks[signal.task].state = "completed"

IsPrefix(s, r) == Len(s) <= Len(r) /\ SubSeq(r, 1, Len(s)) = s

\* The status and artifact updates among the events of a sequence.
Updates(q) == SelectSeq(q, LAMBDA e : e.kind # "task")

\* What a call and an event tell about an update, for comparing them.
CallShape(c) ==
    [kind |-> IF c.op = "add_artifact" THEN "artifact" ELSE "status",
     state |-> c.state, final |-> c.final]

EventShape(e) ==
    [kind |-> e.kind, state |-> IF e.kind = "artifact" THEN "none" ELSE e.state,
     final |-> e.final]

RECURSIVE EmittedFor(_, _)
\* The events the first n invocations enqueued for task t, one invocation
\* after the other.
EmittedFor(t, n) ==
    IF n = 0 THEN <<>>
    ELSE EmittedFor(t, n - 1) \o
         (IF inv[n].task = t THEN inv[n].emitted ELSE <<>>)

\* C2: for each task id the status and artifact events emitted are the
\* accepted update_status / add_artifact / complete calls, one event per
\* call and in the order of the calls, and each stream hands them to its
\* consumer in that order, none dropped, merged or duplicated on the way.
C2_EventsInCallOrder ==
    /\ \A t \in TaskIds :
         /\ Len(Updates(events[t])) = Len(calls[t])
         /\ \A k \in 1..Len(calls[t]) :
              EventShape(Updates(events[t])[k]) = CallShape(calls[t][k])
         /\ events[t] = EmittedFor(t, ninv)
    /\ \A i \in InvIds : IsPrefix(inv[i].received, inv[i].emitted)

\* a stream has handed over a snapshot, a working status, an artifact and
\* the completed status
C2_Witness ==
    \E i \in InvIds :
      /\ inv[i].received = inv[i].emitted
      /\ Len(inv[i].received) = 4
      /\ inv[i].received[2].state = "working"
      /\ inv[i].received[3].kind = "artifact"
      /\ inv[i].received[4].state = "completed"

IsWorking(e) == e.kind = "status" /\ e.state = "working" /\ ~e.final

\* C3: an invocation of execute that returns has emitted zero or more
\* working updates with final=false and then exactly one closing step:
\* an input-required status with final=true, or an artifact update followed
\* by a completed status with final=true; nothing is emitted after an event
\* with final=true.
C3_TurnShape ==
    \A i \in InvIds :
      LET ev == Updates(inv[i].emitted)
          n == Len(ev)
      IN /\ \A k \in 1..(n - 1) : ~ev[k].final
         /\ inv[i].pc = "returned" =>
              /\ n >= 1
              /\ ev[n].kind = "status" /\ ev[n].final
              /\ \/ /\ ev[n].state = "input-required"
                    /\ \A k \in 1..(n - 1) : IsWorking(ev[k])
                 \/ /\ ev[n].state = "completed"
                    /\ n >= 2
                    /\ ev[n - 1].kind = "artifact"
                    /\ \A k \in 1..(n - 2) : IsWorking(ev[k])

\* an invocation returned after a working update, an artifact and completed
C3_Witness ==
    \E i \in InvIds :
      /\ inv[i].pc = "returned"
      /\ inv[i].progress >= 1
      /\ Last(inv[i].emitted).state = "completed"

\* C4 (as claimed): a stream is ended exactly once, and only after every
\* event produced was forwarded in order and the last one forwarded carries
\* final=true.
C4_StreamEndsAfterFinal ==
    \A i \in InvIds :
      inv[i].ended > 0 =>
        /\ inv[i].ended = 1
        /\ inv[i].received = inv[i].emitted
        /\ Len(inv[i].received) > 0
        /\ Last(inv[i].received).final

\* C5: an invocation whose request names a stored task works on that task:
\* it creates no task and emits no Task snapshot, all its events carry the
\* ids of that task, and the artifacts and history of a task are only ever
\* extended.
C5_ResumeSameTask ==
    /\ [](\A i \in InvIds :
            inv[i].pc # "idle" /\ inv[i].req # NoTask =>
              /\ inv[i].task = inv[i].req
              /\ \A k \in 1..Len(inv[i].emitted) :
                   /\ inv[i].emitted[k].kind # "task"
                   /\ inv[i].emitted[k].task = inv[i].req
                   /\ inv[i].emitted[k].context = tasks[inv[i].req].context)
    /\ [](Cardinality({t \in TaskIds : tasks[t].exists})
            = Cardinality({i \in InvIds : inv[i].pc # "idle" /\
                                          inv[i].req = NoTask}))
    /\ [][\A t \in TaskIds :
            tasks[t].exists =>
              /\ tasks'[t].exists
              /\ tasks'[t].context = tasks[t].context
              /\ IsPrefix(tasks[t].artifacts, tasks'[t].artifacts)
              /\ IsPrefix(tasks[t].history, tasks'[t].history)]_vars

\* a task paused in input-required by one invocation was completed, with
\* its artifact, by a later invocation that named it
C5_Witness ==
    \E i, j \in InvIds :
      /\ i < j
      /\ inv[i].pc = "returned"
      /\ Last(inv[i].emitted).state = "input-required"
      /\ inv[j].req = inv[i].task
      /\ inv[j].pc = "returned"
      /\ tasks[inv[j].req].state = "completed"
      /\ Len(tasks[inv[j].req].artifacts) = 1
      /\ Len(tasks[inv[j].req].history) >= 3

\* C6 (as claimed): after a worker fault the caller gets InternalError and
\* the stored task is failed.
C6_FaultRecordedAsFailed ==
    \A i \in InvIds :
      inv[i].pc = "raised" /\ inv[i].fault =>
        /\ inv[i].err = "InternalError"
        /\ tasks[inv[i].task].state = "failed"

\* C7 (as claimed): no two invocations run on the same task at once.
C7_OneInvocationPerTask ==
    \A i, j \in InvIds :
      i # j /\ Running(i) /\ Running(j) => inv[i].task # inv[j].task

C10_ErrorsChangeNothing ==
    [][signal'.err \in ProtocolErrors =>
         /\ UNCHANGED <<tasks, events, calls>>
         /\ \A i \in InvIds :
              /\ inv'[i].emitted = inv[i].emitted
              /\ inv'[i].received = inv[i].received]_vars

\* cancel signalled UnsupportedOperation for a task whose events are still
\* being forwarded
C10_Witness ==
    /\ signal.call = "cancel"
    /\ signal.err = "UnsupportedOperation"
    /\ \E i \in InvIds :
         /\ inv[i].task = signal.task
         /\ inv[i].ended = 0
         /\ Len(inv[i].received) >= 1
         /\ Len(inv[i].received) < Len(inv[i].emitted)

\* The status writes the claim lists.
C16_ListedTransitions ==
    {<<"submitted", "working">>, <<"working", "working">>,
     <<"working", "input-required">>, <<"working", "completed">>,
     <<"working", "failed">>}

\* The status writes the engine accepts: out of any state that is not
\* terminal, into working, input-required, completed or failed.
C16_AcceptedTransitions ==
    (TaskStates \ Terminal) \X
    {"working", "input-required", "completed", "failed"}

\* A status write was accepted for task t in this step.
StatusWritten(t) ==
    /\ Len(calls'[t]) = Len(calls[t]) + 1
    /\ Last(calls'[t]).op # "add_artifact"

\* C16 (as claimed): a task starts in submitted and every status write is
\* one of submitted->working, working->working, working->input-required,
\* working->completed, working->failed.
C16_OnlyListedTransitions ==
    [][\A t \in TaskIds :
         /\ ~tasks[t].exists /\ tasks'[t].exists
              => tasks'[t].state = "submitted"
         /\ tasks[t].exists /\ StatusWritten(t)
              => <<tasks[t].state, tasks'[t].state>> \in C16_ListedTransitions
         /\ tasks[t].exists /\ ~StatusWritten(t)
              => tasks'[t].state = tasks[t].state]_vars

\* C16 (amended): a task starts in submitted; its state changes only by an
\* accepted status write, which stores the state the call names and goes
\* from submitted, working or input-required to working, input-required,
\* completed or failed (the working step is optional, and a resumed task
\* leaves input-required).
C16_OnlyAcceptedTransitions ==
    [][\A t \in TaskIds :
         /\ ~tasks[t].exists /\ tasks'[t].exists
              => tasks'[t].state = "submitted"
         /\ tasks[t].exists /\ StatusWritten(t)
              => /\ <<tasks[t].state, tasks'[t].state>>
                      \in C16_AcceptedTransitions
                 /\ tasks'[t].state = Last(calls'[t]).state
         /\ tasks[t].exists /\ ~StatusWritten(t)
              => tasks'[t].state = tasks[t].state]_vars

\* a worker that yielded its outcome without a progress notice took a task
\* from submitted to input-required, and a resumed one from there to working
C16_Witness ==
    \E t \in TaskIds :
      /\ Len(calls[t]) = 2
      /\ calls[t][1].state = "input-required"
      /\ calls[t][2].state = "working"
      /\ tasks[t].state = "working"

\* C17: a step that changes the stored record or the event sequence of a
\* task is a step of an invocation bound to that task (or the creation of
\* that task), so an invocation on another task id never changes them; and
\* every event carries the task id and context id of the updater that
\* emitted it.
C17_DistinctTasksIndependent ==
    /\ [](\A i \in InvIds : \A k \in 1..Len(inv[i].emitted) :
            /\ inv[i].emitted[k].task = inv[i].task
            /\ inv[i].emitted[k].context = tasks[inv[i].task].context)
    /\ [](\A t \in TaskIds : \A k \in 1..Len(events[t]) :
            /\ events[t][k].task = t
            /\ events[t][k].context = tasks[t].context)
    /\ [][\A t \in TaskIds :
            tasks'[t] # tasks[t] \/ events'[t] # events[t]
              \/ calls'[t] # calls[t]
              => \E i \in InvIds : /\ inv'[i] # inv[i]
                                   /\ inv'[i].task = t]_vars

\* two invocations on different task ids have both got as far as their
\* artifact while the other was still running
C17_Witness ==
    \E i, j \in InvIds :
      /\ inv[i].task # inv[j].task
      /\ inv[i].pc = "complete"
      /\ inv[j].pc = "complete"
      /\ Len(tasks[inv[i].task].artifacts) = 1
      /\ Len(tasks[inv[j].task].artifacts) = 1

\* ------------------------------------------------------ claims: chat tab
\* The handler has just taken one more event from the stream.
ChatEventRead ==
    /\ chat.pc = "reading"
    /\ chat'.pc = "reading"
    /\ Len(chat'.debug_events) = Len(chat.debug_events) + 1

\* The handler has just ended the turn.
ChatTurnEnded == chat.pc = "reading" /\ chat'.pc = "idle"

\* C18 (as claimed): a status update in the protocol's input-required state
\* sets the reducer state of the turn to input_required and records its
\* text as the latest response, and a turn that ends on it leaves the chat
\* state input_required.
C18_InputRequiredReduced ==
    [][/\ ChatEventRead
          /\ Last(chat'.debug_events).kind = "status-update"
          /\ Last(chat'.debug_events).state = "input-required"
          => /\ chat'.final_state = "input_required"
             /\ Last(chat'.debug_events).text # NoText
                  => chat'.final_response = Last(chat'.debug_events).text
       /\ ChatTurnEnded /\ chat'.closed_by = "complete"
          /\ chat.last_status = "input-required"
          => chat'.chat_state = "input_required"]_vars

\* C19 (as claimed): the message sent after a turn that ended paused in
\* input-required carries the task id and the context id of that task.
C19_FollowUpCarriesTaskId ==
    [][chat.pc = "idle" /\ chat'.pc = "reading"
       /\ chat.last_status = "input-required"
       /\ chat.chat_task_id # NoTask
       => /\ chat'.sent.taskId = chat.chat_task_id
          /\ chat'.sent.contextId = chat.context_id]_vars

\* C20: a status update with state completed or failed sets the reducer
\* state of the turn to that state; its text, if it has one, becomes the
\* latest response, and without text the response recorded before stays;
\* the notes are left alone, and a turn the stream closes normally ends
\* with the chat state set to the reducer state.
C20_TerminalStatusReduced ==
    [][/\ ChatEventRead
          /\ Last(chat'.debug_events).kind = "status-update"
          /\ Last(chat'.debug_events).state \in {"completed", "failed"}
          => /\ chat'.final_state = Last(chat'.debug_events).state
             /\ chat'.final_response =
                  IF Last(chat'.debug_events).text # NoText
                  THEN Last(chat'.debug_events).text
                  ELSE chat.final_response
             /\ chat'.status_messages = chat.status_messages
       /\ ChatTurnEnded /\ chat'.closed_by = "complete"
          => chat'.chat_state = chat.final_state]_vars

\* a completed status without text has been reduced after an artifact with
\* text: the artifact's text is still the latest response
C20_Witness ==
    /\ chat.pc = "reading"
    /\ Len(chat.debug_events) = 2
    /\ chat.debug_events[1].kind = "artifact-update"
    /\ chat.debug_events[1].text # NoText
    /\ chat.debug_events[2].kind = "status-update"
    /\ chat.debug_events[2].state = "completed"
    /\ chat.debug_events[2].text = NoText
    /\ chat.final_state = "completed"
    /\ chat.final_response = chat.debug_events[1].text

\* ------------------------------------------- claims: blocking message/send
\* C11: a blocking message/send call that returns a Task snapshot returns
\* it only after the invocation has recorded a completed, failed or
\* input-required status, and the snapshot carries the state of the first
\* such status; it is never submitted or working.
C11_SyncReturnsClosingState ==
    \A i \in InvIds :
      replies[i].kind = "task" =>
        /\ HasClosing(i)
        /\ replies[i].state = FirstClosing(i).state
        /\ replies[i].state \in ClosingStates
        /\ replies[i].state \notin {"submitted", "working"}

\* a first call returned the task paused in input-required, and the
\* follow-up call on that task returned it completed
C11_Witness ==
    \E i, j \in InvIds :
      /\ i < j
      /\ replies[i].kind = "task"
      /\ replies[i].state = "input-required"
      /\ inv[j].req = replies[i].task
      /\ replies[j].kind = "task"
      /\ replies[j].state = "completed"

\* ---------------------------------------- claims: disconnect and webhooks
\* The client closed the stream of invocation i before its end.
Disconnected(i) == inv[i].closedBy = "disconnect"

\* C12: a client that closed its stream neither blocks nor cancels the
\* worker: while execute is still running its next step can be taken, once
\* execute has returned the stored state is the state of its closing event
\* and tasks/get returns that state, and the task is never canceled.
C12_DisconnectLeavesWorkerFree ==
    \A i \in InvIds :
      Disconnected(i) =>
        LET t == inv[i].task IN
        /\ inv[i].pc = "stream" => ENABLED StreamItem(i)
        /\ inv[i].pc = "complete" => ENABLED ExecuteComplete(i)
        /\ inv[i].pc = "returned" =>
             /\ Last(inv[i].emitted).kind = "status"
             /\ Last(inv[i].emitted).final
             /\ tasks[t].state = Last(inv[i].emitted).state
             /\ GetTask(t).kind = "task"
             /\ GetTask(t).state = Last(inv[i].emitted).state
        /\ tasks[t].state # "canceled"

\* Scenario B: the client left after the snapshot and one working event,
\* execute returned, and tasks/get finds the task completed
C12_Witness ==
    \E i \in InvIds :
      /\ Disconnected(i)
      /\ Len(inv[i].received) = 2
      /\ IsWorking(Last(inv[i].received))
      /\ inv[i].pc = "returned"
      /\ GetTask(inv[i].task).state = "completed"

\* The deliveries made for task t, in order.
DeliveriesFor(t) == SelectSeq(deliveries, LAMBDA d : d.task = t)

\* Scenario B with a webhook: the client left after the snapshot and one
\* working event, execute returned with the task completed, and the
\* completed snapshot was posted to the webhook set for the task.
ScenarioBWithWebhook(i) ==
    /\ Disconnected(i)
    /\ Len(inv[i].received) = 2
    /\ IsWorking(Last(inv[i].received))
    /\ inv[i].pc = "returned"
    /\ tasks[inv[i].task].state = "completed"
    /\ push_config[inv[i].task] # NoConfig
    /\ \E k \in 1..Len(deliveries) :
         deliveries[k].task = inv[i].task /\ deliveries[k].state = "completed"

C13_DeliveryStep ==
    IF \E t \in TaskIds : StatusWritten(t) /\ push_config[t] # NoConfig
    THEN \E t \in TaskIds :
           /\ StatusWritten(t)
           /\ Len(deliveries') = Len(deliveries) + 1
           /\ SubSeq(deliveries', 1, Len(deliveries)) = deliveries
           /\ Last(deliveries').task = t
           /\ Last(deliveries').url = push_config[t]
           /\ Last(deliveries').state = tasks'[t].state
    ELSE deliveries' = deliveries

C14_ConfigStep ==
    /\ signal'.call = "set_config"
         => push_config' = [push_config EXCEPT ![signal'.task] = signal'.arg]
    /\ signal'.call # "set_config" => push_config' = push_config
    /\ deliveries' # deliveries
         => /\ Len(deliveries') = Len(deliveries) + 1
            /\ push_config[Last(deliveries').task] # NoConfig
            /\ Last(deliveries').url = push_config[Last(deliveries').task]

\* C14: each task id has at most one active webhook config, the one of the
\* latest set call for it, and status changes are delivered only to it.
C14_LastWriteWins ==
    /\ [][C14_ConfigStep]_vars
    /\ [](\A t \in TaskIds :
            /\ push_config[t] \in WebhookUrls \cup {NoConfig}
            /\ push_config[t] # NoConfig => tasks[t].exists)

\* Scenario C: the webhook of a task was set to url1 and later to url2, and
\* the status change after the second call was delivered to url2
C14_Witness ==
    \E t \in TaskIds :
      /\ push_config[t] = "url2"
      /\ Len(DeliveriesFor(t)) = 2
      /\ DeliveriesFor(t)[1].url = "url1"
      /\ DeliveriesFor(t)[2].url = "url2"

\* A delivery was attempted in this step and failed.
DeliveryFailed ==
    /\ Len(deliveries') = Len(deliveries) + 1
    /\ Last(deliveries').outcome # "delivered"

\* C15, the step of a failed delivery: the status call that caused it
\* succeeds, the state it names is stored and its event is emitted to the
\* task's log and to the invocation's queue, and no invocation raises.
C15_FailedDeliveryStep ==
    DeliveryFailed =>
      LET t == Last(deliveries').task IN
      /\ signal'.err = "none"
      /\ StatusWritten(t)
      /\ tasks'[t].state = Last(calls'[t]).state
      /\ Last(deliveries').state = tasks'[t].state
      /\ Len(events'[t]) = Len(events[t]) + 1
      /\ Last(events'[t]).kind = "status"
      /\ Last(events'[t]).state = tasks'[t].state
      /\ \A i \in InvIds :
           /\ inv'[i].pc = "raised" => inv[i].pc = "raised"
           /\ inv[i].task = t /\ Running(i)
                => /\ Len(inv'[i].emitted) = Len(inv[i].emitted) + 1
                   /\ Last(inv'[i].emitted) = Last(events'[t])

\* C15: a failed webhook delivery changes nothing but the Sender's log: the
\* step is as above, an error reaches a client only after a worker fault,
\* and whatever the outcomes of the deliveries made so far, the next step
\* of a running execute can be taken.
C15_DeliveryFailureContained ==
    /\ [][C15_FailedDeliveryStep]_vars
    /\ [](\A i \in InvIds :
            /\ inv[i].pc = "raised" => inv[i].fault
            /\ inv[i].closedBy = "error" => inv[i].fault
            /\ inv[i].pc = "stream" => ENABLED StreamItem(i)
            /\ inv[i].pc = "complete" => ENABLED ExecuteComplete(i))

\* the delivery of the working snapshot timed out, and the task went on to
\* completed, whose snapshot was delivered; the stream ended on the final
\* event
C15_Witness ==
    \E i \in InvIds :
      /\ Len(deliveries) = 2
      /\ deliveries[1].state = "working"
      /\ deliveries[1].outcome = "timeout"
      /\ deliveries[2].state = "completed"
      /\ deliveries[2].task = inv[i].task
      /\ tasks[inv[i].task].state = "completed"
      /\ inv[i].pc = "returned"
      /\ inv[i].closedBy = "final"

\* ------------------------------------- claims: chat tab, notes and artifacts
\* The event the handler has just taken from the stream.
ChatEventData == Last(chat'.debug_events)

ResponseText(c) ==
    IF c.final_response = NoResponse THEN NoText ELSE c.final_response

\* C22 (as claimed): an artifact update always replaces the latest response
\* with the artifact's extracted text, also when that text is empty, and
\* sets the reducer state of the turn to completed.
C22_ArtifactOverwritesResponse ==
    [][ChatEventRead /\ ChatEventData.kind = "artifact-update"
       => /\ ResponseText(chat') = ChatEventData.text
          /\ chat'.final_state = "completed"]_vars

\* The stream of the turn in hand has delivered an artifact update.
ArtifactSeen(c) ==
    \E k \in 1..Len(c.debug_events) : c.debug_events[k].kind = "artifact-update"

\* C23 (as claimed): a turn whose events include an artifact update ends
\* with the chat state completed, whatever status events came before or
\* after the artifact.
C23_ArtifactTurnEndsCompleted ==
    [][ChatTurnEnded /\ chat'.closed_by = "complete" /\ ArtifactSeen(chat)
       => chat'.chat_state = "completed"]_vars

\* C26 (as claimed): a turn whose stream closes with no recorded response
\* and no status note ends with a diagnostic entry shown that carries the
\* raw events of the turn.
C26_DiagnosticShown ==
    [][ChatTurnEnded /\ chat'.closed_by = "complete"
       /\ chat.final_response = NoResponse /\ chat.status_messages = <<>>
       => /\ Len(chat'.chat_messages) = Len(chat.chat_messages) + 1
          /\ Last(chat'.chat_messages).type = "error"
          /\ Last(chat'.chat_messages).raw # <<>>]_vars

\* ------------------------------------------------- claims: text extraction
\* The parts of a message or artifact, bare or wrapped.
RECURSIVE MessageParts(_)
MessageParts(obj) ==
    IF obj.parts # <<>> THEN obj.parts[1]
    ELSE IF obj.message # <<>> THEN MessageParts(obj.message[1])
    ELSE MessageParts(obj.root[1])

\* The payload is a message or artifact: a dict that lists parts, bare or
\* wrapped.
RECURSIVE IsMessage(_)
IsMessage(obj) ==
    /\ obj.type = "dict"
    /\ obj.text = <<>>
    /\ \/ obj.parts # <<>>
       \/ obj.parts = <<>> /\ obj.message # <<>> /\ IsMessage(obj.message[1])
       \/ obj.parts = <<>> /\ obj.message = <<>> /\ obj.root # <<>>
          /\ IsMessage(obj.root[1])

\* The part is tagged as text directly or inside one level of wrapping.
TextBearing(part) ==
    /\ part.dict
    /\ \/ IsTextTagged(part)
       \/ part.root # <<>> /\ part.root[1].dict /\ IsTextTagged(part.root[1])

\* The texts of the text-bearing parts, in part order.
TextBearingTexts(parts) ==
    LET sel == SelectSeq(parts, TextBearing) IN
    [k \in 1..Len(sel) |->
       IF IsTextTagged(sel[k]) THEN Get(sel[k].text, EmptyString)
       ELSE Get(sel[k].root[1].text, EmptyString)]

\* The texts one after the other, nothing between them.
RECURSIVE Concatenation(_)
Concatenation(texts) ==
    IF texts = <<>> THEN EmptyString
    ELSE Concatenation(SubSeq(texts, 1, Len(texts) - 1)) \o Last(texts)

\* The texts one after the other, a newline between neighbours.
RECURSIVE Lines(_)
Lines(texts) ==
    IF texts = <<>> THEN EmptyString
    ELSE IF Len(texts) = 1 THEN texts[1]
    ELSE Lines(SubSeq(texts, 1, Len(texts) - 1)) \o Newline \o Last(texts)

Extracted == extraction.pc \in {"extracted", "again"}

\* C24 (as claimed): extraction from a message or artifact returns the
\* concatenation, in part order, of the texts of its text-bearing parts.
C24_ExtractionConcatenates ==
    Extracted /\ IsMessage(extraction.obj)
    => /\ extraction.out.ok
       /\ extraction.out.val =
            Concatenation(TextBearingTexts(MessageParts(extraction.obj)))

\* C24 (amended): extraction from a message or artifact returns, without
\* raising, the texts of its text-bearing parts in part order, joined by a
\* newline between neighbours; other parts contribute nothing, and without
\* a text-bearing part the result is the empty string. None and the empty
\* dict yield the empty string as well.
C24_ExtractionJoinsLines ==
    /\ Extracted /\ IsMessage(extraction.obj)
       => /\ extraction.out.ok
          /\ extraction.out.val =
               Lines(TextBearingTexts(MessageParts(extraction.obj)))
          /\ (\A k \in 1..Len(MessageParts(extraction.obj)) :
                ~TextBearing(MessageParts(extraction.obj)[k]))
             => extraction.out.val = EmptyString
    /\ Extracted
       /\ extraction.obj \in {NoneValue, Dict(<<>>, <<>>, <<>>, <<>>)}
       => extraction.out = Returned(EmptyString)

\* a wrapped message of a text part and a root-wrapped text part has been
\* extracted: the two texts with a newline between them
C24_Witness ==
    /\ Extracted
    /\ extraction.obj.message # <<>>
    /\ IsMessage(extraction.obj)
    /\ Len(MessageParts(extraction.obj)) = 2
    /\ MessageParts(extraction.obj)[1].kind = "text"
    /\ MessageParts(extraction.obj)[2].root # <<>>
    /\ extraction.out.val = <<"a", "nl", "b">>

\* C25 (as claimed): extraction applied to a string that an extraction
\* returned returns that string, and never raises.
C25_ExtractionIdempotent ==
    extraction.pc = "again"
    => /\ extraction.again.ok
       /\ extraction.again.val = extraction.out.val

\* --------------------------------------------------- claims: context id
\* A message has been sent in this step (chat, sync or stream).
MessageSent == chat'.turns = chat.turns + 1

\* A new conversation has been started in this step: Connect, New Chat or
\* New Context (none of them sends a message, reads an event, ends a turn
\* or disconnects).
ConversationStarted ==
    /\ chat.pc = "idle" /\ chat'.pc = "idle"
    /\ ~MessageSent
    /\ chat'.connected

\* C27: the context id changes only when a new conversation is started,
\* and then to an id not used before; sending a message, reading an event,
\* ending a turn and disconnecting leave it unchanged, every message sent
\* carries the session's context id, and the task ids of the turns of one
\* conversation may differ.
C27_ContextChangesOnNewConversation ==
    [][/\ chat'.context_id # chat.context_id
          => ConversationStarted /\ chat'.context_id > chat.context_id
       /\ MessageSent \/ ChatEventRead \/ ChatTurnEnded \/ ~chat'.connected
          => chat'.context_id = chat.context_id
       /\ MessageSent => chat'.sent.contextId = chat.context_id]_vars

\* two chat turns of one conversation have ended with different task ids
\* under the same context id
C27_Witness ==
    /\ chat.pc = "idle"
    /\ Len(chat.task_history) = 2
    /\ chat.task_history[1].id # chat.task_history[2].id
    /\ chat.task_history[1].contextId = chat.task_history[2].contextId
    /\ chat.task_history[2].contextId = chat.context_id
    /\ chat.sent.contextId = chat.context_id
    /\ chat.context_id > SessionContext

\* ------------------------------------------------ claims: weather database
\* The cache_weather calls made for the city, ignoring letter case.
CachedFor(city) ==
    SelectSeq(db.log, LAMBDA c : Lower(c.city) = Lower(city))

\* C28 (as claimed): get_cached_weather(city) returns the data of the most
\* recent cache_weather call for the city (ignoring letter case) when that
\* call was made less than the maximum age ago, None when no such call was
\* made, and the cache holds at most one entry per lower-cased city.
C28_CacheReturnsLatest ==
    /\ db.pc = "read"
       => LET cs == CachedFor(db.asked.city) IN
          IF cs = <<>> THEN db.result = None
          ELSE db.utc - Last(cs).at < DefaultMaxAgeMinutes
               => db.result = Some(Last(cs).data)
    /\ \A r1, r2 \in db.weather_cache : r1.city = r2.city => r1 = r2

\* The city contains the filter, letter for letter.
ContainsFilter(city, f) ==
    \E i \in 0..(Len(Chars(city)) - Len(Chars(f))) :
      SubSeq(Chars(city), i + 1, i + Len(Chars(f))) = Chars(f)

\* The city contains the filter when ASCII letters are compared without
\* regard to case and "_" in the filter stands for any one character.
MatchesFilter(city, f) ==
    \E i \in 0..(Len(Chars(city)) - Len(Chars(f))) :
      \A k \in 1..Len(Chars(f)) :
        \/ Chars(f)[k] = "_"
        \/ Fold(Chars(f)[k]) = Fold(Chars(city)[i + k])

\* The history read returned m records, all of them saved rows that
\* satisfy matches, and total is m.
HistoryIs(m, matches(_)) ==
    /\ Len(db.history) = m
    /\ db.total = Len(db.history)
    /\ \A k \in 1..Len(db.history) :
         /\ matches(db.history[k].city)
         /\ \E j \in 1..Len(db.weather_queries) :
              db.history[k] = HistoryRecord(db.weather_queries[j])

Min(a, b) == IF a <= b THEN a ELSE b

\* C29 (as claimed): get_weather_history(city, limit) returns min(limit, n)
\* records, n being the number of saved records whose city contains the
\* filter (all of them when the filter is empty); each is a saved matching
\* record, total is the number returned, and an empty database gives total
\* 0 and an empty history.
C29_HistoryCount ==
    db.pc = "history"
    => LET f == db.asked.city
           contains(c) == f = "" \/ ContainsFilter(c, f)
           n == Cardinality({j \in 1..Len(db.weather_queries) :
                               contains(db.weather_queries[j].city)})
       IN HistoryIs(Min(db.asked.limit, n), contains)

\* C29 (amended): the filter is matched without regard to the case of
\* ASCII letters and with "_" for any one character; with n the number of
\* saved records whose city matches (all of them when the filter is
\* empty), min(limit, n) records are returned for a limit of 0 or more and
\* all n for a negative limit, newest first; each is a saved matching
\* record, total is the number returned, and an empty database gives total
\* 0 and an empty history.
C29_HistoryCountLike ==
    db.pc = "history"
    => LET f == db.asked.city
           matches(c) == f = "" \/ MatchesFilter(c, f)
           n == Cardinality({j \in 1..Len(db.weather_queries) :
                               matches(db.weather_queries[j].city)})
       IN /\ HistoryIs(IF db.asked.limit < 0 THEN n
                       ELSE Min(db.asked.limit, n), matches)
          /\ \A i, j \in 1..Len(db.history) :
               i < j => db.history[i].queried_at >= db.history[j].queried_at
          /\ db.weather_queries = <<>>
               => db.total = 0 /\ db.history = <<>>

\* two records were saved for Seoul and one was asked for with the filter
\* "seoul": the newer one is returned
C29_Witness ==
    /\ db.pc = "history"
    /\ db.asked = [city |-> "seoul", limit |-> 1]
    /\ Len(db.weather_queries) = 2
    /\ db.weather_queries[1].city = "Seoul"
    /\ db.weather_queries[2].city = "Seoul"
    /\ db.weather_queries[1].created_at < db.weather_queries[2].created_at
    /\ db.total = 1
    /\ db.history[1] = HistoryRecord(db.weather_queries[2])

\* ------------------------------------------------ claims: weather forecast
\* The items of the response that have a date.
DatedItems ==
    {j \in 1..Len(forecast.data.list) :
       /\ "dt_txt" \in DOMAIN forecast.data.list[j]
       /\ forecast.data.list[j].dt_txt[1] # " "}

\* The date of a dated item, as text.
DateText(j) == <<forecast.data.list[j].dt_txt[1]>>

\* The first item of the response that has the date of item j.
FirstOfDate(j) ==
    CHOOSE i \in DatedItems :
      /\ DateText(i) = DateText(j)
      /\ \A h \in DatedItems : DateText(h) = DateText(j) => i <= h

\* The entry is built from item j.
BuiltFrom(entry, j) ==
    LET item == forecast.data.list[j] IN
    /\ entry.date = DateText(j)
    /\ entry.temperature = item.main.temp
    /\ entry.feels_like = item.main.feels_like
    /\ entry.humidity = item.main.humidity
    /\ entry.description = item.weather[1].description
    /\ entry.wind_speed = item.wind.speed

C31_FailureIsAValue ==
    forecast.pc = "done"
    => /\ forecast.raised = "none"
       /\ forecast.returned # None
       /\ forecast.api_key \in {None, Some("")}
          => /\ forecast.requests = 0
             /\ DOMAIN forecast.returned[1] = {"error"}
             /\ \E k \in DOMAIN forecast.returned[1].error :
                  forecast.returned[1].error[k] = "OPENWEATHER_API_KEY"
       /\ /\ forecast.api_key = Some("test_api_key")
          /\ forecast.http
               \in {"404", "500", "ConnectError", "ReadTimeout",
                    "invalid_json"}
          => DOMAIN forecast.returned[1] = {"error"}

\* ------------------------------------------------- claims: task snapshot
\* C32, the step of a request: a request without a current task creates one
\* task and emits its snapshot, the first event of that task; a request with
\* a current task creates no task and emits nothing on entry.
C32_RequestStep ==
    ninv' = ninv + 1 =>
      LET i == ninv' IN
      IF inv'[i].req = NoTask
      THEN \E t \in TaskIds :
             /\ ~tasks[t].exists /\ tasks'[t].exists
             /\ inv'[i].task = t
             /\ events[t] = <<>>
             /\ events'[t] = <<Event("task", t, tasks'[t].context,
                                     "submitted", FALSE)>>
             /\ \A u \in TaskIds \ {t} :
                  tasks'[u] = tasks[u] /\ events'[u] = events[u]
      ELSE /\ \A t \in TaskIds : tasks'[t].exists = tasks[t].exists
           /\ inv'[i].task = inv'[i].req
           /\ events' = events

\* C32, at every moment: the events of a task begin with its Task snapshot
\* and hold no other; an invocation that created its task emitted the
\* snapshot before everything else, one that was given its task emitted
\* none.
C32_SnapshotFirst ==
    /\ \A t \in TaskIds :
         IF tasks[t].exists
         THEN /\ events[t] # <<>>
              /\ events[t][1].kind = "task"
              /\ \A k \in 2..Len(events[t]) : events[t][k].kind # "task"
         ELSE events[t] = <<>>
    /\ \A i \in InvIds :
         inv[i].pc # "idle" =>
           IF inv[i].req = NoTask
           THEN /\ inv[i].emitted # <<>>
                /\ inv[i].emitted[1].kind = "task"
                /\ \A k \in 2..Len(inv[i].emitted) :
                     inv[i].emitted[k].kind # "task"
           ELSE \A k \in 1..Len(inv[i].emitted) :
                  inv[i].emitted[k].kind # "task"

\* C32: a request without a current task creates a Task and emits its
\* snapshot exactly once, before any status or artifact update of the task;
\* a request with a current task emits no snapshot and allocates no task id.
C32_SnapshotOnce == [][C32_RequestStep]_vars /\ []C32_SnapshotFirst

\* a task was opened by one request and updated by a second one that named
\* it: its events are the snapshot and then updates only
C32_Witness ==
    \E i, j \in InvIds :
      /\ inv[i].pc # "idle" /\ inv[i].req = NoTask
      /\ inv[j].pc # "idle" /\ inv[j].req = inv[i].task
      /\ inv[j].emitted # <<>>
      /\ Len(events[inv[i].task]) >= 3
      /\ Cardinality({t \in TaskIds : tasks[t].exists}) = 1

\* ---------------------------------------------- claims: artifact, then end
\* C33, the step of add_artifact: an accepted add_artifact appends exactly
\* one artifact to the task and one artifact update, with final=false, to
\* its events, leaves the state of the task as it was, and the invocation
\* goes on to complete().
C33_ArtifactStep ==
    \A i \in InvIds :
      inv[i].pc = "stream" /\ inv'[i].pc = "complete" =>
        LET t == inv[i].task IN
        /\ Len(tasks'[t].artifacts) = Len(tasks[t].artifacts) + 1
        /\ IsPrefix(tasks[t].artifacts, tasks'[t].artifacts)
        /\ tasks'[t].state = tasks[t].state
        /\ tasks'[t].state \notin Terminal
        /\ Len(events'[t]) = Len(events[t]) + 1
        /\ Last(events'[t]).kind = "artifact"
        /\ ~Last(events'[t]).final
        /\ inv'[i].emitted = Append(inv[i].emitted, Last(events'[t]))
        /\ inv'[i].ended = inv[i].ended

\* C33, at every moment: a completed status emitted by an invocation comes
\* right after the artifact update of that invocation, and a task whose
\* events hold a completed status holds an artifact emitted before it.
C33_ArtifactCameFirst ==
    /\ \A i \in InvIds :
         \A k \in 1..Len(inv[i].emitted) :
           inv[i].emitted[k].kind = "status"
             /\ inv[i].emitted[k].state = "completed" =>
               /\ k >= 2
               /\ inv[i].emitted[k - 1].kind = "artifact"
               /\ inv[i].emitted[k].final
    /\ \A t \in TaskIds :
         /\ \A k \in 1..Len(events[t]) :
              events[t][k].kind = "status" /\ events[t][k].state = "completed"
                => \E j \in 1..(k - 1) : events[t][j].kind = "artifact"
         /\ tasks[t].state = "completed" => tasks[t].artifacts # <<>>

\* C33: on a completed outcome the artifact update is emitted strictly
\* before the completed final status; add_artifact appends one artifact,
\* leaves the state unchanged and does not end the stream, so no task is
\* completed by the bridge without its artifact emitted first.
C33_ArtifactBeforeCompleted ==
    [][C33_ArtifactStep]_vars /\ []C33_ArtifactCameFirst

\* an invocation returned after its artifact and the completed status, in
\* that order, and the task is completed with one artifact
C33_Witness ==
    \E i \in InvIds :
      LET n == Len(inv[i].emitted) IN
      /\ inv[i].pc = "returned"
      /\ n >= 2
      /\ inv[i].emitted[n].state = "completed" /\ inv[i].emitted[n].final
      /\ inv[i].emitted[n - 1].kind = "artifact"
      /\ tasks[inv[i].task].state = "completed"
      /\ Len(tasks[inv[i].task].artifacts) = 1

\* ------------------------------------------- claims: the worker's outcome
\* The status that decides the outcome of a run: that of the structured
\* response, else of the WeatherResponseFormat tool call (input_required when
\* its args give none), else of the JSON text; "none" when there is none.
DecidingStatus(g) ==
    CASE g.structured # "none" -> g.structured
      [] g.structured = "none" /\ g.toolcall = "default" -> "input_required"
      [] g.structured = "none" /\ g.toolcall \notin {"none", "default"}
           -> g.toolcall
      [] g.structured = "none" /\ g.toolcall = "none" -> g.json

\* C34: the final outcome of the worker has exactly one of is_task_complete
\* and require_user_input set and is a completion only when the deciding
\* status is completed; on error, on input_required and on the fallback the
\* turn is closed as input-required with final=true, and no failed status
\* is ever emitted by the bridge.
C34_OutcomeClosesTurn ==
    LET r == GetAgentResponse(worker.g)
        d == DecidingStatus(worker.g)
    IN /\ r.is_task_complete # r.require_user_input
       /\ r.is_task_complete <=> d = "completed"
       /\ \A t \in TaskIds :
            /\ tasks[t].state # "failed"
            /\ \A k \in 1..Len(events[t]) : events[t][k].state # "failed"
            /\ \A k \in 1..Len(calls[t]) : calls[t][k].state # "failed"
       /\ \A i \in InvIds :
            /\ inv[i].pc = "complete" => d = "completed"
            /\ inv[i].pc = "returned" =>
                 LET e == Last(inv[i].emitted) IN
                 /\ e.kind = "status" /\ e.final
                 /\ e.state = IF d = "completed" THEN "completed"
                              ELSE "input-required"
                 /\ tasks[inv[i].task].state = e.state

\* a run whose structured response has the status error was closed as
\* input-required with final=true
C34_Witness ==
    /\ worker.fixed
    /\ worker.g.structured = "error"
    /\ \E i \in InvIds :
         /\ inv[i].pc = "returned"
         /\ Last(inv[i].emitted).state = "input-required"
         /\ Last(inv[i].emitted).final
         /\ tasks[inv[i].task].state = "input-required"

\* ------------------------------------------------ claims: reducer state
\* The events read in the turn hold no input-required, completed or failed
\* status and no artifact.
OnlyProgressRead(c) ==
    \A k \in 1..Len(c.debug_events) :
      LET data == c.debug_events[k] IN
      /\ data.kind # "artifact-update"
      /\ data.kind = "status-update"
           => data.state \notin {"input-required", "input_required",
                                 "completed", "failed"}

\* C35, at every moment: the chat state is one of the five reducer states;
\* it is working exactly while a prompt is being handled, so once the
\* prompt is handled the chat input is enabled again.
C35_StateKnown ==
    /\ chat.chat_state
         \in {"idle", "working", "input_required", "completed", "failed"}
    /\ chat.pc = "idle" => chat.chat_state # "working"
    /\ chat.pc = "idle" /\ chat.connected /\ chat.turns < MaxTurns
         => ENABLED ChatPrompt

\* C35, the end of a turn: when the stream ended without a transport error
\* and without any input-required, completed or failed status or artifact,
\* the chat state becomes completed.
C35_QuietTurnStep ==
    ChatTurnEnded /\ chat'.closed_by = "complete" /\ OnlyProgressRead(chat)
      => chat'.chat_state = "completed"

RECURSIVE ParsedUpTo(_, _)
ParsedUpTo(lines, n) ==
    IF n = 0 THEN <<>>
    ELSE IF lines[n].field = "data: " /\ lines[n].ok
    THEN Append(ParsedUpTo(lines, n - 1), lines[n].value)
    ELSE ParsedUpTo(lines, n - 1)

\* The lines that arrive: all of them, or those before the transport fails.
Arrived(tr) ==
    IF tr.fail_at = 0 THEN Len(tr.lines) ELSE tr.fail_at - 1

\* C36: send_message_stream yields the parsed data events in the order
\* their lines arrive and then exactly one closing item, "complete" with
\* all events yielded or "error", and nothing after it; a data line that is
\* not JSON is skipped without ending the stream or reordering the others.
C36_EventsThenOneClosing ==
    LET tr == transport
        n == Len(tr.yielded)
        m == IF tr.pc = "done" THEN n - 1 ELSE n
    IN /\ tr.pc = "done" => n >= 1
       /\ \A k \in 1..m : tr.yielded[k].type = "event"
       /\ [k \in 1..m |-> tr.yielded[k].data] = ParsedUpTo(tr.lines, tr.read)
       /\ tr.read <= Arrived(tr)
       /\ tr.pc = "done" =>
            /\ tr.read = Arrived(tr)
            /\ tr.yielded[n] = IF tr.fail_at = 0
                               THEN [type |-> "complete", data |-> 0,
                                     events |-> ParsedUpTo(tr.lines,
                                                           Len(tr.lines))]
                               ELSE [type |-> "error", data |-> 0,
                                     events |-> <<>>]
            /\ ~ENABLED send_message_stream

\* a response whose second data line is not JSON: the first and the third
\* event were yielded in order, then "complete" with both
C36_Witness ==
    /\ transport.pc = "done"
    /\ Len(transport.lines) = 3
    /\ \A k \in 1..3 : transport.lines[k].field = "data: "
    /\ ~transport.lines[2].ok
    /\ Len(transport.yielded) = 3
    /\ transport.yielded[1].data = 1
    /\ transport.yielded[2].data = 3
    /\ transport.yielded[3].type = "complete"
    /\ transport.yielded[3].events = <<1, 3>>

\* ----------------------------------------------- claims: transport failure
\* C37, the end of a turn whose stream closed with an error item: the chat
\* state becomes failed; the notes taken before the failure are appended in
\* order and after them one entry of type error that reports the error, in
\* place of whatever response the earlier events of the turn had recorded;
\* the task history records the task, if one is known, as failed.
C37_TransportFailureStep ==
    ChatTurnEnded /\ chat'.closed_by = "error" =>
      LET before == Len(chat.chat_messages)
          n == Len(chat.status_messages)
      IN /\ chat'.chat_state = "failed"
         /\ Len(chat'.chat_messages) = before + n + 1
         /\ IsPrefix(chat.chat_messages, chat'.chat_messages)
         /\ \A k \in 1..n :
              chat'.chat_messages[before + k]
                = [role |-> "assistant", type |-> "status",
                   content |-> chat.status_messages[k], raw |-> <<>>]
         /\ Last(chat'.chat_messages)
              = [role |-> "assistant", type |-> "error",
                 content |-> "Error", raw |-> <<>>]
         /\ chat.final_response # NoResponse =>
              \A k \in (before + 1)..(before + n + 1) :
                chat'.chat_messages[k].content # chat.final_response
         /\ chat'.chat_task_id # NoTask =>
              \E k \in 1..Len(chat'.task_history) :
                /\ chat'.task_history[k].id = chat'.chat_task_id
                /\ chat'.task_history[k].state = "failed"

\* C37: when the transport fails during a chat turn, the turn ends in
\* failed with a latest response that reports the error, replacing any
\* response recorded earlier in the turn, and the status notes collected
\* before the failure are still appended.
C37_TransportFailure == [][C37_TransportFailureStep]_vars

\* a turn with a note that had read a completed status ended with a
\* transport error: the note and the error entry were appended, the chat
\* state is failed
C37_Witness ==
    /\ chat.pc = "idle"
    /\ chat.closed_by = "error"
    /\ chat.last_status = "completed"
    /\ chat.chat_state = "failed"
    /\ Len(chat.chat_messages) = 3
    /\ chat.chat_messages[2].type = "status"
    /\ chat.chat_messages[3].type = "error"
    /\ chat.chat_messages[3].content = "Error"

====
